---- MODULE Spec2Model ----
(***************************************************************************)
(* Receive side of the TRTP audio pipeline of libaah_rtp:                  *)
(*   - AAH_RXPlayer::Substream (aah_rx_player_substream.cpp): reassembly   *)
(*     of TRTP payload fragments into access units;                        *)
(*   - AAH_DecoderPump (aah_decoder_pump.cpp): the input queue, the work   *)
(*     thread with its decode error budget, and the render path.           *)
(* Objects are records whose fields carry the names of the C++ members.    *)
(* Member functions are operators from the object(s) before the call to    *)
(* the object(s) after it; the actions at the end apply them.              *)
(***************************************************************************)
EXTENDS Integers, Sequences, FiniteSets, TLC

VARIABLES
    sub,      \* the AAH_RXPlayer::Substream object
    pump,     \* its AAH_DecoderPump (decoder_), work thread included
    calls,    \* what the last operation did (pump calls, buffers), in order
    tx,       \* sender side: the packet being transmitted, bytes sent and left
    hist,     \* observed history (runs of failed decode steps, RAP accepted)
    crashed,  \* a CHECK() failed: the process has aborted
    thr       \* the pump's two threads step by step (SpecThreads): where each
              \* is, the locks, the exit request, the units taken so far

vars == <<sub, pump, calls, tx, hist, crashed, thr>>

-----------------------------------------------------------------------------
(* Status codes (utils/Errors.h) and NULL.                                 *)

OK == "OK"
BAD_VALUE == "BAD_VALUE"
UNKNOWN_ERROR == "UNKNOWN_ERROR"
ERROR_MALFORMED == "ERROR_MALFORMED"

NULL == [null |-> TRUE]

-----------------------------------------------------------------------------
(* uint32_t values as two 16-bit limbs <<hi, lo>>: the model checker's     *)
(* integers are 32-bit signed, the program's lengths are 32-bit unsigned   *)
(* and wrap modulo 2^32.                                                   *)

Limb == 65536

U32(n) == <<n \div Limb, n % Limb>>

U32Val(u) == u[1] * Limb + u[2]

Add32(a, b) ==
    LET lo == a[2] + b[2]
        hi == a[1] + b[1] + (lo \div Limb)
    IN  <<hi % Limb, lo % Limb>>

Sub32(a, b) ==
    LET lo == a[2] - b[2]
        borrow == IF lo < 0 THEN 1 ELSE 0
        hi == a[1] - b[1] - borrow
    IN  <<(hi + Limb) % Limb, (lo + Limb) % Limb>>

Lt32(a, b) == a[1] < b[1] \/ (a[1] = b[1] /\ a[2] < b[2])

\* min(uint32_t a, uint32_t b) with b a small value
Min32(a, n) == IF Lt32(a, U32(n)) THEN U32Val(a) ELSE n

\* U32_AT: big-endian 32-bit load at byte offset off (0-based) of buf
U32_AT(buf, off) ==
    <<buf[off + 1] * 256 + buf[off + 2], buf[off + 3] * 256 + buf[off + 4]>>

\* the four bytes of a 32-bit value, big-endian
Bytes32(u) == <<u[1] \div 256, u[1] % 256, u[2] \div 256, u[2] % 256>>

\* an int64_t timestamp as its two 32-bit halves; the value 0
TsZero == [hi |-> U32(0), lo |-> U32(0)]

Drop(s, n) == SubSeq(s, n + 1, Len(s))

Take(s, n) == SubSeq(s, 1, n)

-----------------------------------------------------------------------------
(* AAH_DecoderPump                                                         *)

kLongDecodeErrorThreshold == 1000000
kMaxLongErrorsBeforeFatal == 3
kMaxErrorsBeforeFatal == 60

\* AAH_DecoderPump::AAH_DecoderPump
PumpNew ==
    [ thread_status            |-> OK,
      decoder                  |-> FALSE,      \* decoder_ != NULL
      format                   |-> NULL,
      format_channels          |-> 0,
      format_sample_rate       |-> 0,
      in_queue                 |-> <<>>,
      renderer                 |-> NULL,
      last_queued_pts_valid    |-> FALSE,
      last_queued_pts          |-> TsZero,
      last_ts_transform_valid  |-> FALSE,
      last_ts_transform        |-> 0,
      last_volume              |-> 255,
      \* the work thread: where it is, and workThread's locals
      wpc                      |-> "none",     \* none | start | loop | exited
      consecutive_errors       |-> 0,
      consecutive_long_errors  |-> 0 ]

\* AAH_DecoderPump::stopAndCleanupRenderer
stopAndCleanupRenderer(p) == [p EXCEPT !.renderer = NULL]

\* (variant) a queueForDecode that does not look at thread_status_
queueForDecode_Always(p, buf) ==
    [p |-> [p EXCEPT !.in_queue = Append(@, buf)], res |-> OK]

\* AAH_DecoderPump::queueForDecode (buf is never NULL here)
queueForDecode(p, buf) ==
    IF p.thread_status # OK
    THEN [p |-> p, res |-> p.thread_status]
    ELSE [p |-> [p EXCEPT !.in_queue = Append(@, buf)], res |-> OK]

\* AAH_DecoderPump::setRenderVolume
setRenderVolume(p, volume) ==
    IF volume = p.last_volume
    THEN p
    ELSE [p EXCEPT !.last_volume = volume,
                   !.renderer = IF p.renderer = NULL THEN NULL
                                ELSE [p.renderer EXCEPT !.volume = volume]]

\* (variant) a setRenderTSTransform that compares with the stored transform
\* whether that is valid or not
setRenderTSTransform_Stale(p, trans) ==
    IF trans = p.last_ts_transform
    THEN p
    ELSE [p EXCEPT !.last_ts_transform = trans,
                   !.last_ts_transform_valid = TRUE,
                   !.renderer = IF p.renderer = NULL THEN NULL
                                ELSE [p.renderer EXCEPT !.transform = trans]]

\* AAH_DecoderPump::setRenderTSTransform
setRenderTSTransform(p, trans) ==
    IF p.last_ts_transform_valid /\ trans = p.last_ts_transform
    THEN p
    ELSE [p EXCEPT !.last_ts_transform = trans,
                   !.last_ts_transform_valid = TRUE,
                   !.renderer = IF p.renderer = NULL THEN NULL
                                ELSE [p.renderer EXCEPT !.transform = trans]]

\* (variant) an init that clears the pump's status
PumpInit_Reset(p, params, create_ok, run_ok) ==
    LET q == [p EXCEPT !.thread_status = OK]
    IN  IF q.decoder
        THEN [p |-> q, res |-> OK]
        ELSE IF params = NULL \/ "channels" \notin DOMAIN params
        THEN [p |-> q, res |-> BAD_VALUE]
        ELSE IF "sample_rate" \notin DOMAIN params
        THEN [p |-> [q EXCEPT !.format_channels = params.channels],
              res |-> BAD_VALUE]
        ELSE IF create_ok /\ run_ok
        THEN [p |-> [q EXCEPT !.format_channels = params.channels,
                              !.format_sample_rate = params.sample_rate,
                              !.format = params, !.decoder = TRUE,
                              !.wpc = "start",
                              !.consecutive_errors = 0,
                              !.consecutive_long_errors = 0],
              res |-> OK]
        ELSE [p |-> [q EXCEPT !.format_channels = params.channels,
                              !.format_sample_rate = params.sample_rate,
                              !.format = NULL, !.decoder = FALSE],
              res |-> OK]

\* int64_t values as two 32-bit halves, two's complement: x + y and x - y
\* modulo 2^64, and whether the signed operation overflows
I64(h1, h0, l1, l0) == [hi |-> <<h1, h0>>, lo |-> <<l1, l0>>]

Neg64(x) == x.hi[1] >= 32768

Add64(x, y) ==
    [ lo |-> Add32(x.lo, y.lo),
      hi |-> Add32(Add32(x.hi, y.hi),
                   IF Lt32(Add32(x.lo, y.lo), x.lo) THEN U32(1) ELSE U32(0)) ]

Sub64(x, y) ==
    [ lo |-> Sub32(x.lo, y.lo),
      hi |-> Sub32(Sub32(x.hi, y.hi),
                   IF Lt32(x.lo, y.lo) THEN U32(1) ELSE U32(0)) ]

AddOverflows(x, y) == Neg64(x) = Neg64(y) /\ Neg64(Add64(x, y)) # Neg64(x)

SubOverflows(x, y) == Neg64(x) # Neg64(y) /\ Neg64(Sub64(x, y)) # Neg64(x)

\* x > 0
Pos64(x) == ~Neg64(x) /\ x # TsZero

\* AAH_DecoderPump::isAboutToUnderflow.  clock is what the common clock
\* does: time_ok (getCommonTime succeeds) with tt_now, transform_ok
\* (doForwardTransform succeeds) with mapped, the value it gives for
\* last_queued_pts_.  tt_now + threshold - last_queued_pts_tt is int64_t
\* arithmetic: where it overflows the behaviour is undefined, and ub is
\* what the comparison then yields.
isAboutToUnderflow(p, threshold, clock, ub) ==
    IF ~p.last_queued_pts_valid \/ ~p.last_ts_transform_valid THEN FALSE
    ELSE IF ~clock.time_ok THEN FALSE
    ELSE IF ~clock.transform_ok THEN FALSE
    ELSE IF AddOverflows(clock.tt_now, threshold)
            \/ SubOverflows(Add64(clock.tt_now, threshold), clock.mapped)
    THEN ub
    ELSE Pos64(Sub64(Add64(clock.tt_now, threshold), clock.mapped))

\* (variant) an init that looks at its argument first
PumpInit_ParamsFirst(p, params, create_ok, run_ok) ==
    IF params = NULL \/ "channels" \notin DOMAIN params
          \/ "sample_rate" \notin DOMAIN params
    THEN [p |-> p, res |-> BAD_VALUE]
    ELSE IF p.decoder
    THEN [p |-> p, res |-> OK]
    ELSE IF create_ok /\ run_ok
    THEN [p |-> [p EXCEPT !.format_channels = params.channels,
                          !.format_sample_rate = params.sample_rate,
                          !.format = params, !.decoder = TRUE,
                          !.wpc = "start",
                          !.consecutive_errors = 0,
                          !.consecutive_long_errors = 0],
          res |-> OK]
    ELSE [p |-> [p EXCEPT !.format_channels = params.channels,
                          !.format_sample_rate = params.sample_rate,
                          !.format = NULL, !.decoder = FALSE],
          res |-> OK]

\* AAH_DecoderPump::init.  create_ok: OMXCodec::Create returned a decoder;
\* run_ok: thread_->run started the work thread.  A key that findInt32
\* does not find is a field the record params does not have.
PumpInit(p, params, create_ok, run_ok) ==
    IF p.decoder
    THEN [p |-> p, res |-> OK]
    ELSE IF params = NULL \/ "channels" \notin DOMAIN params
    THEN [p |-> p, res |-> BAD_VALUE]
    ELSE IF "sample_rate" \notin DOMAIN params
    THEN [p |-> [p EXCEPT !.format_channels = params.channels],
          res |-> BAD_VALUE]
    ELSE IF create_ok /\ run_ok
    THEN [p |-> [p EXCEPT !.format_channels = params.channels,
                          !.format_sample_rate = params.sample_rate,
                          !.format = params, !.decoder = TRUE,
                          !.wpc = "start",
                          !.consecutive_errors = 0,
                          !.consecutive_long_errors = 0],
          res |-> OK]
    ELSE [p |-> [p EXCEPT !.format_channels = params.channels,
                          !.format_sample_rate = params.sample_rate,
                          !.format = NULL, !.decoder = FALSE],
          res |-> OK]

\* The tail of workThread: decoder_->stop(); stopAndCleanupRenderer().
WorkerExit(p) == [stopAndCleanupRenderer(p) EXCEPT !.wpc = "exited"]

\* (variant) a shutdown that leaves the buffers queued where they are
shutdown_l_KeepQueue(p) ==
    LET joined == IF p.wpc = "loop" THEN WorkerExit(p) ELSE p
    IN  [joined EXCEPT !.wpc = "none",
                       !.consecutive_errors = 0,
                       !.consecutive_long_errors = 0,
                       !.last_queued_pts_valid = FALSE,
                       !.last_ts_transform_valid = FALSE,
                       !.last_volume = 255,
                       !.thread_status = OK,
                       !.decoder = FALSE,
                       !.format = NULL]

\* AAH_DecoderPump::shutdown_l.  requestExitAndWait returns once the work
\* thread, if one is running, has left its loop through WorkerExit.
shutdown_l(p) ==
    LET joined == IF p.wpc = "loop" THEN WorkerExit(p) ELSE p
    IN  [joined EXCEPT !.wpc = "none",
                       !.consecutive_errors = 0,      \* the thread's locals
                       !.consecutive_long_errors = 0, \* end with the thread
                       !.in_queue = <<>>,
                       !.last_queued_pts_valid = FALSE,
                       !.last_ts_transform_valid = FALSE,
                       !.last_volume = 255,
                       !.thread_status = OK,
                       !.decoder = FALSE,
                       !.format = NULL]

\* AAH_DecoderPump::shutdown
PumpShutdown(p) == shutdown_l(p)

\* (variant) a render step that records the timestamp of every unit it has a
\* renderer for, accepted or not
queueToRenderer_Eager(p, decoded_sample, renv) ==
    IF ~decoded_sample.has_ts
    THEN [p |-> p, crash |-> TRUE]
    ELSE
    LET make == p.renderer = NULL /\ renv # "set_fail"
        made == [ transform   |-> p.last_ts_transform,
                  volume      |-> p.last_volume,
                  sample_rate |-> p.format_sample_rate,
                  channels    |-> p.format_channels ]
        r1 == IF p.renderer # NULL THEN p.renderer
              ELSE IF renv \in {"set_fail", "transform_fail"} THEN NULL
              ELSE made
    IN  IF make /\ ~p.last_ts_transform_valid
        THEN [p |-> p, crash |-> TRUE]
        ELSE [p |-> [p EXCEPT
                       !.renderer = r1,
                       !.last_queued_pts_valid = IF r1 # NULL THEN TRUE ELSE @,
                       !.last_queued_pts = IF r1 # NULL THEN decoded_sample.ts
                                           ELSE @],
              crash |-> FALSE]

\* AAH_DecoderPump::queueToRenderer.  renv is what the TimedAudioTrack does
\* on this call: "ok", or the one step of it that fails.
queueToRenderer(p, decoded_sample, renv) ==
    IF ~decoded_sample.has_ts
    THEN [p |-> p, crash |-> TRUE]                 \* CHECK(false)
    ELSE
    LET make == p.renderer = NULL /\ renv # "set_fail"
        made == [ transform   |-> p.last_ts_transform,
                  volume      |-> p.last_volume,
                  sample_rate |-> p.format_sample_rate,
                  channels    |-> p.format_channels ]
        r1 == IF p.renderer # NULL THEN p.renderer
              ELSE IF renv \in {"set_fail", "transform_fail"} THEN NULL
              ELSE made
        submitted == r1 # NULL /\ renv \notin {"alloc_fail", "queue_fail"}
    IN  IF make /\ ~p.last_ts_transform_valid
        THEN [p |-> p, crash |-> TRUE]             \* CHECK(last_ts_transform_valid_)
        ELSE [p |-> [p EXCEPT
                       !.renderer = r1,
                       !.last_queued_pts_valid = IF submitted THEN TRUE ELSE @,
                       !.last_queued_pts = IF submitted THEN decoded_sample.ts ELSE @],
              crash |-> FALSE]

\* workThread up to its loop: thread_status_ = decoder_->start(format_).
WorkerStart(p, res) ==
    IF res # OK
    THEN [p EXCEPT !.thread_status = res, !.wpc = "exited"]
    ELSE [p EXCEPT !.thread_status = OK, !.wpc = "loop",
                   !.consecutive_errors = 0,
                   !.consecutive_long_errors = 0]

\* (variant) a read that leaves the unit it returns in the queue
ReadHead_Keep(p) == p

\* AAH_DecoderPump::read, as the decode engine calls it with a unit queued
ReadHead(p) == [p EXCEPT !.in_queue = Tail(@)]

\* (variant) an error branch that counts and never gives up
DecodeError_NoBudget(p, res, durationUsecs) ==
    [p EXCEPT !.consecutive_errors = @ + 1]

\* The error branch of workThread's loop (res != OK).
DecodeError(p, res, durationUsecs) ==
    LET errors == p.consecutive_errors + 1
        long   == IF durationUsecs >= kLongDecodeErrorThreshold
                  THEN p.consecutive_long_errors + 1
                  ELSE p.consecutive_long_errors
        counted == [p EXCEPT !.consecutive_errors = errors,
                             !.consecutive_long_errors = long]
    IN  IF errors >= kMaxErrorsBeforeFatal \/ long >= kMaxLongErrorsBeforeFatal
        THEN WorkerExit([counted EXCEPT !.thread_status = res])
        ELSE counted

\* One iteration of workThread's loop.  The decode engine's read() is the
\* environment: kind is what it returns ("output": OK with a buffer, "none":
\* OK without one, "format_changed", "error": res), pull whether it took
\* the head of in_queue_ through AAH_DecoderPump::read while doing so.
DecodeStep(p, kind, pull, res, durationUsecs, renv) ==
    LET p1 == IF pull THEN ReadHead(p) ELSE p
    IN  CASE kind = "format_changed" ->
               [p |-> stopAndCleanupRenderer(p1), crash |-> FALSE]
          [] kind = "error" ->
               [p |-> DecodeError(p1, res, durationUsecs), crash |-> FALSE]
          [] kind = "none" ->
               [p |-> p1, crash |-> FALSE]
          [] kind = "output" ->
               queueToRenderer([p1 EXCEPT !.consecutive_errors = 0,
                                          !.consecutive_long_errors = 0],
                               Head(p.in_queue), renv)

-----------------------------------------------------------------------------
(* TRTP wire constants (aah_tx_packet.h)                                   *)

kHeaderTypeAudio == 1
kHeaderTypeVideo == 2
kHeaderTypeControl == 4
kFlag_TSValid == 1
kFlag_TSTransformPresent == 2
kFlag_AuxLengthPresent == 16
kFlag_RandomAccessPoint == 8
kCodecPCMBigEndian == 1
kCodecMPEG1Audio == 3
kCodecAACAudio == 4

MEDIA_MIMETYPE_AUDIO_MPEG == "audio/mpeg"
MEDIA_MIMETYPE_AUDIO_AAC == "audio/mp4a-latm"

\* bit test: (value & flag) != 0, flag a power of two
HasFlag(value, flag) == (value \div flag) % 2 = 1

\* GetMPEGAudioFrameSize: sample rate and channel count of an MPEG audio
\* frame header, from its four bytes.
GetMPEGAudioFrameSize(b) ==
    LET version == (b[2] \div 8) % 4
        layer == (b[2] \div 2) % 4
        bitrate_index == b[3] \div 16
        sampling_rate_index == (b[3] \div 4) % 4
        rate_v1 == CASE sampling_rate_index = 0 -> 44100
                     [] sampling_rate_index = 1 -> 48000
                     [] OTHER -> 32000
        ok == /\ b[1] = 255 /\ b[2] >= 224
              /\ version # 1 /\ layer # 0
              /\ bitrate_index \notin {0, 15}
              /\ sampling_rate_index # 3
    IN  [ ok |-> ok,
          sample_rate |-> IF ~ok THEN 0
                          ELSE IF version = 2 THEN rate_v1 \div 2
                          ELSE IF version = 0 THEN rate_v1 \div 4
                          ELSE rate_v1,
          channel_count |-> IF ~ok THEN 0
                            ELSE IF b[4] \div 64 = 3 THEN 1 ELSE 2 ]

-----------------------------------------------------------------------------
(* AAH_RXPlayer::Substream.  Its member functions work on a context        *)
(* c = [s: the substream, p: its decoder pump, calls: the pump calls and   *)
(* buffer releases made so far in this operation].                         *)

\* an unwritten byte of a freshly allocated MediaBuffer
Unwritten == -1

\* AAH_RXPlayer::Substream::Substream
SubstreamNew ==
    [ substream_details_known |-> FALSE,
      substream_type          |-> 0,
      codec_type              |-> 0,
      buffer_in_progress      |-> NULL,
      status                  |-> OK,
      codec_mime_type         |-> "",
      substream_meta          |-> NULL,
      expected_buffer_size    |-> U32(0),
      buffer_filled           |-> 0,
      waiting_for_rap         |-> TRUE,
      aux_data_in_progress    |-> <<>>,
      aux_data_expected_size  |-> U32(0) ]

Call(c, entry) == [c EXCEPT !.calls = Append(@, entry)]

\* (variant) a cleanup that leaves the buffer in progress where it is
cleanupBufferInProgress_Keep(c) == c

\* AAH_RXPlayer::Substream::cleanupBufferInProgress
cleanupBufferInProgress(c) ==
    LET released == IF c.s.buffer_in_progress # NULL
                    THEN Call(c, [op |-> "release", buf |-> c.s.buffer_in_progress])
                    ELSE c
    IN  [released EXCEPT !.s.buffer_in_progress = NULL,
                         !.s.expected_buffer_size = U32(0),
                         !.s.buffer_filled = 0,
                         !.s.waiting_for_rap = TRUE,
                         !.s.aux_data_in_progress = <<>>,
                         !.s.aux_data_expected_size = U32(0)]

\* AAH_RXPlayer::Substream::cleanupDecoder
cleanupDecoder(c) ==
    [Call(c, [op |-> "shutdown", status |-> c.p.thread_status])
        EXCEPT !.p = PumpShutdown(c.p)]

\* (variant) a substream that never aborts
shouldAbort_Never(s) == FALSE

\* AAH_RXPlayer::Substream::shouldAbort
shouldAbort(s) == s.status # OK

\* (variant) a substream that takes whatever codec the packet names
setupSubstreamType_Any(s, substream_type, codec_type) ==
    IF codec_type \notin {kCodecMPEG1Audio, kCodecAACAudio}
    THEN [ok |-> FALSE, s |-> s]
    ELSE [ok |-> TRUE,
          s  |-> [s EXCEPT !.substream_type = substream_type,
                           !.codec_type = codec_type,
                           !.substream_details_known = TRUE]]

\* AAH_RXPlayer::Substream::setupSubstreamType
setupSubstreamType(s, substream_type, codec_type) ==
    IF s.substream_details_known
    THEN [ok |-> codec_type = s.codec_type, s |-> s]
    ELSE IF codec_type \notin {kCodecMPEG1Audio, kCodecAACAudio}
    THEN [ok |-> FALSE, s |-> s]
    ELSE [ok |-> TRUE,
          s  |-> [s EXCEPT !.substream_type = substream_type,
                           !.codec_type = codec_type,
                           !.substream_details_known = TRUE]]

\* a 32-bit field read into an int32_t
Int32Of(u) == IF u[1] >= 32768 THEN (u[1] - Limb) * Limb + u[2]
              ELSE u[1] * Limb + u[2]

\* (variant) a format change of MP3 that leaves the decoder running
setupMP3SubstreamMeta_NoTeardown(c) ==
    LET hdr == GetMPEGAudioFrameSize(c.s.buffer_in_progress.data)
    IN  [ok |-> hdr.ok,
         c  |-> [c EXCEPT !.s.substream_meta =
                    [ mime        |-> MEDIA_MIMETYPE_AUDIO_MPEG,
                      channels    |-> hdr.channel_count,
                      sample_rate |-> hdr.sample_rate,
                      has_esds    |-> FALSE,
                      esds        |-> <<>> ]]]

\* AAH_RXPlayer::Substream::setupMP3SubstreamMeta
setupMP3SubstreamMeta(c) ==
    LET buf == c.s.buffer_in_progress
        hdr == GetMPEGAudioFrameSize(buf.data)
        prev == c.s.substream_meta
    IN  IF Lt32(buf.size, U32(4)) THEN [ok |-> FALSE, c |-> c]
        ELSE IF ~hdr.ok THEN [ok |-> FALSE, c |-> c]
        ELSE IF prev = NULL
        THEN [ok |-> TRUE,
              c  |-> [c EXCEPT !.s.substream_meta =
                         [ mime        |-> MEDIA_MIMETYPE_AUDIO_MPEG,
                           channels    |-> hdr.channel_count,
                           sample_rate |-> hdr.sample_rate,
                           has_esds    |-> FALSE,
                           esds        |-> <<>> ]]]
        ELSE IF prev.channels # hdr.channel_count
                \/ prev.sample_rate # hdr.sample_rate
        THEN [ok |-> TRUE,
              c  |-> [cleanupDecoder(c) EXCEPT
                         !.s.substream_meta.channels = hdr.channel_count,
                         !.s.substream_meta.sample_rate = hdr.sample_rate]]
        ELSE [ok |-> TRUE, c |-> c]

\* AAH_RXPlayer::Substream::setupAACSubstreamMeta
setupAACSubstreamMeta(c) ==
    LET aux_data == c.s.aux_data_in_progress
        overhead == 8
        sample_rate == Int32Of(U32_AT(aux_data, 0))
        channel_cnt == Int32Of(U32_AT(aux_data, 4))
        hasData == Len(aux_data) > overhead
        esds_data == Drop(aux_data, overhead)
        prev == c.s.substream_meta
        esds_change == \/ prev.has_esds # hasData
                       \/ hasData /\ prev.esds # esds_data
        fresh == [ mime        |-> MEDIA_MIMETYPE_AUDIO_AAC,
                   channels    |-> channel_cnt,
                   sample_rate |-> sample_rate,
                   has_esds    |-> hasData,
                   esds        |-> IF hasData THEN esds_data ELSE <<>> ]
    IN  IF Len(aux_data) < overhead THEN [ok |-> FALSE, c |-> c]
        ELSE IF prev = NULL
        THEN [ok |-> TRUE, c |-> [c EXCEPT !.s.substream_meta = fresh]]
        ELSE IF ~esds_change /\ prev.sample_rate = sample_rate
                             /\ prev.channels = channel_cnt
        THEN [ok |-> TRUE, c |-> c]
        ELSE [ok |-> TRUE,
              c  |-> [cleanupDecoder(c) EXCEPT !.s.substream_meta = fresh]]

\* AAH_RXPlayer::Substream::setupSubstreamMeta
setupSubstreamMeta(c) ==
    CASE c.s.codec_type = kCodecMPEG1Audio ->
            setupMP3SubstreamMeta(
                [c EXCEPT !.s.codec_mime_type = MEDIA_MIMETYPE_AUDIO_MPEG])
      [] c.s.codec_type = kCodecAACAudio ->
            setupAACSubstreamMeta(
                [c EXCEPT !.s.codec_mime_type = MEDIA_MIMETYPE_AUDIO_AAC])
      [] OTHER -> [ok |-> FALSE, c |-> c]

\* processCompletedBuffer, "res = decoder_->init(substream_meta_)": env is
\* what the platform does during the call: create_ok, run_ok (see PumpInit)
\* and start_res, the result of decoder_->start() when a work thread started
\* by this init runs that far before queueForDecode reads thread_status_
\* ("late" when it does not).
initDecoder(c, env) ==
    LET ini == PumpInit(c.p, c.s.substream_meta, env.create_ok, env.run_ok)
    IN  [ res |-> ini.res,
          c   |-> [Call(c, [op |-> "init", params |-> c.s.substream_meta,
                            res |-> ini.res, decoder |-> ini.p.decoder])
                     EXCEPT !.p = IF ~c.p.decoder /\ ini.p.decoder
                                     /\ env.start_res # "late"
                                  THEN WorkerStart(ini.p, env.start_res)
                                  ELSE ini.p] ]

\* processCompletedBuffer, "res = decoder_->queueForDecode(buffer_in_progress_)"
queueCompleted(c) ==
    LET que == queueForDecode(c.p, c.s.buffer_in_progress)
    IN  [ res |-> que.res,
          c   |-> [Call(c, [op |-> "queueForDecode",
                            buf |-> c.s.buffer_in_progress,
                            res |-> que.res,
                            decoder |-> c.p.decoder,
                            format |-> c.p.format])
                     EXCEPT !.p = que.p] ]

\* (variant) a completion that releases the unit the pump has taken
afterQueue_ReleaseTaken(q) ==
    IF q.res # OK
    THEN cleanupBufferInProgress(
            [cleanupBufferInProgress(
                cleanupDecoder([q.c EXCEPT !.s.status = q.res]))
             EXCEPT !.s.buffer_in_progress = NULL])
    ELSE cleanupBufferInProgress(q.c)

\* processCompletedBuffer from the result q of queueForDecode on
afterQueue(q) ==
    IF q.res # OK
    THEN cleanupBufferInProgress(
            [cleanupBufferInProgress(
                cleanupDecoder([q.c EXCEPT !.s.status = q.res]))
             EXCEPT !.s.buffer_in_progress = NULL])
    ELSE cleanupBufferInProgress([q.c EXCEPT !.s.buffer_in_progress = NULL])

\* processCompletedBuffer from the result i of init on
afterInit(i) ==
    IF i.res # OK
    THEN cleanupBufferInProgress(
             [cleanupDecoder(i.c) EXCEPT !.s.substream_meta = NULL])
    ELSE afterQueue(queueCompleted(i.c))

\* (variant) a completion that goes on whatever setupSubstreamMeta returned
afterMeta_Regardless(meta, env) == afterInit(initDecoder(meta.c, env))

\* processCompletedBuffer from the result meta of setupSubstreamMeta on
afterMeta(meta, env) ==
    IF ~meta.ok
    THEN cleanupBufferInProgress(meta.c)
    ELSE afterInit(initDecoder(meta.c, env))

\* AAH_RXPlayer::Substream::processCompletedBuffer (decoder_, the pump the
\* constructor allocated, is never NULL)
processCompletedBuffer(c0, env) ==
    afterMeta(setupSubstreamMeta(
                  Call(c0, [op  |-> "completed",
                            buf |-> c0.s.buffer_in_progress,
                            aux |-> c0.s.aux_data_in_progress])),
              env)

\* (variant) a copy to the start of the buffer whatever the offset
WriteAt_Front(data, off, bytes) == bytes

\* memcpy(tgt + off, bytes, Len(bytes)) on the bytes of a MediaBuffer written
\* so far; bytes skipped over stay Unwritten
WriteAt(data, off, bytes) ==
    [i \in 1..(IF Len(data) > off + Len(bytes) THEN Len(data)
               ELSE off + Len(bytes)) |->
        IF i > off /\ i <= off + Len(bytes) THEN bytes[i - off]
        ELSE IF i <= Len(data) THEN data[i]
        ELSE Unwritten]

\* ts = (static_cast<int64_t>(ts_upper) << 32) | ts_lower, ts_lower an
\* int32_t: the 64-bit result as its two 32-bit halves.  A negative ts_lower
\* is sign-extended before the OR and sets every bit of the upper half.
MakeTs(ts_upper, ts_lower) ==
    [ hi |-> IF ts_lower[1] >= 32768 THEN <<Limb - 1, Limb - 1>> ELSE ts_upper,
      lo |-> ts_lower ]

\* (variant) a MediaBuffer one byte larger than asked for
NewMediaBuffer_Oversize(size, mime, ts_valid, ts) ==
    [ size |-> Add32(size, U32(1)), data |-> <<>>, mime |-> mime,
      has_ts |-> ts_valid, ts |-> ts ]

\* new MediaBuffer(size) with its meta data filled in
NewMediaBuffer(size, mime, ts_valid, ts) ==
    [ size |-> size, data |-> <<>>, mime |-> mime,
      has_ts |-> ts_valid, ts |-> IF ts_valid THEN ts ELSE TsZero ]

\* log entry: new MediaBuffer(expected_buffer_size_) returned a buffer or NULL
Alloc(ok) == [op |-> "alloc", ok |-> ok]

\* (variant) a buffer that counts as full only when filled beyond its size
BufferFull_Beyond(s) == Lt32(s.expected_buffer_size, U32(s.buffer_filled))

\* the buffer is full: buffer_filled_ >= expected_buffer_size_
BufferFull(s) == ~Lt32(U32(s.buffer_filled), s.expected_buffer_size)

\* AAH_RXPlayer::Substream::processPayloadStart from "Extract as much of the
\* expected aux data as we can" on: rest is the payload after the header.
StartCopy(c, rest, env) ==
    LET aux_todo == Min32(c.s.aux_data_expected_size, Len(rest))
        amt == Len(rest) - aux_todo
        buf == Drop(rest, aux_todo)
        todo == Min32(c.s.expected_buffer_size, amt)
        c1 == [c EXCEPT
                 !.s.aux_data_in_progress = @ \o Take(rest, aux_todo),
                 !.s.buffer_in_progress.data =
                     IF todo > 0 THEN WriteAt(@, 0, Take(buf, todo)) ELSE @,
                 !.s.buffer_filled = IF todo > 0 THEN amt ELSE @]
    IN  IF BufferFull(c1.s) THEN processCompletedBuffer(c1, env) ELSE c1

\* AAH_RXPlayer::Substream::processPayloadStart.  buf is the RTP payload
\* (amt = Len(buf)), ts_lower the 32 bits of the RTP timestamp; env adds
\* alloc_ok, whether the MediaBuffer allocation succeeds.
processPayloadStart(c0, buf, ts_lower, env) ==
    LET amt == Len(buf)
        c1 == IF c0.s.buffer_in_progress # NULL
              THEN cleanupBufferInProgress(c0) ELSE c0
        header_type == (buf[2] \div 16) % 16
        ts_valid == HasFlag(buf[2], kFlag_TSValid)
        len_ts == IF ts_valid THEN 10 ELSE 6
        trtp_len == U32_AT(buf, 2)
        ts == IF ts_valid THEN MakeTs(U32_AT(buf, 6), ts_lower) ELSE TsZero
        len_tt == IF HasFlag(buf[2], kFlag_TSTransformPresent)
                  THEN len_ts + 24 ELSE len_ts
        parse_offset == len_tt
        len_audio == len_tt + 3
        codec_type == buf[parse_offset + 1]
        flags == buf[parse_offset + 2]
        volume == buf[parse_offset + 3]
        typed == setupSubstreamType(c1.s, header_type, codec_type)
        c2 == [Call([c1 EXCEPT !.s = typed.s],
                    [op |-> "setRenderVolume", volume |-> volume])
                 EXCEPT !.p = setRenderVolume(c1.p, volume)]
        has_aux == HasFlag(flags, kFlag_AuxLengthPresent)
        trtp_header_len == IF has_aux THEN len_audio + 4 ELSE len_audio
        aux_size == IF has_aux THEN U32_AT(buf, parse_offset + 3) ELSE U32(0)
        c3 == [c2 EXCEPT !.s.aux_data_expected_size = aux_size,
                         !.s.aux_data_in_progress = IF has_aux THEN <<>> ELSE @]
        expected == Sub32(Sub32(trtp_len, U32(trtp_header_len)), aux_size)
        c4 == [c3 EXCEPT !.s.expected_buffer_size = expected]
        todo == amt - trtp_header_len
        c5 == [c4 EXCEPT !.s.buffer_filled = 0,
                         !.s.buffer_in_progress =
                             NewMediaBuffer(expected, c4.s.codec_mime_type,
                                            ts_valid, ts)]
    IN  IF shouldAbort(c0.s) THEN c0
        ELSE IF amt < 6 THEN c1
        ELSE IF buf[1] # 1 THEN c1
        ELSE IF header_type # kHeaderTypeAudio THEN c1
        ELSE IF c1.s.substream_details_known
                /\ header_type # c1.s.substream_type THEN c1
        ELSE IF amt < len_ts THEN c1
        ELSE IF Lt32(trtp_len, U32(len_ts)) THEN c1
        ELSE IF amt < len_tt THEN c1
        ELSE IF Lt32(trtp_len, U32(len_audio)) THEN c1
        ELSE IF amt < len_audio THEN c1
        ELSE IF ~typed.ok THEN c1
        ELSE IF c2.s.waiting_for_rap
                /\ ~HasFlag(flags, kFlag_RandomAccessPoint) THEN c2
        ELSE IF has_aux /\ Lt32(trtp_len, U32(trtp_header_len)) THEN c2
        ELSE IF has_aux /\ amt < trtp_header_len THEN c2
        ELSE IF Lt32(trtp_len, Add32(aux_size, U32(trtp_header_len))) THEN c3
        ELSE IF expected = U32(0) THEN c4
        ELSE IF amt < trtp_header_len
        THEN [c4 EXCEPT !.crash = TRUE]     \* CHECK(amt >= trtp_header_len)
        ELSE IF Lt32(Add32(expected, aux_size), U32(todo)) THEN c4
        ELSE IF ~env.alloc_ok
        THEN cleanupBufferInProgress(
                 Call([c4 EXCEPT !.s.buffer_filled = 0], Alloc(FALSE)))
        ELSE StartCopy(Call(c5, Alloc(TRUE)), Drop(buf, trtp_header_len), env)

\* AAH_RXPlayer::Substream::processPayloadCont
processPayloadCont(c0, buf0, env) ==
    LET aux_size == U32(Len(c0.s.aux_data_in_progress))
        aux_left == Sub32(c0.s.aux_data_expected_size, aux_size)
        aux_todo == IF aux_left # U32(0) THEN Min32(aux_left, Len(buf0)) ELSE 0
        c1 == [c0 EXCEPT !.s.aux_data_in_progress = @ \o Take(buf0, aux_todo)]
        buf == Drop(buf0, aux_todo)
        amt == Len(buf)
        buffer_left == Sub32(c1.s.expected_buffer_size, U32(c1.s.buffer_filled))
        c2 == IF amt > 0
              THEN [c1 EXCEPT
                      !.s.buffer_in_progress.data =
                          WriteAt(@, c1.s.buffer_filled, buf),
                      !.s.buffer_filled = @ + amt]
              ELSE c1
    IN  IF shouldAbort(c0.s) THEN c0
        ELSE IF c0.s.buffer_in_progress = NULL THEN c0
        ELSE IF Lt32(c0.s.aux_data_expected_size, aux_size)
        THEN [c0 EXCEPT !.crash = TRUE]     \* CHECK(aux size <= expected)
        ELSE IF aux_left # U32(0) /\ amt = 0 THEN c1
        ELSE IF ~Lt32(U32(c1.s.buffer_filled), c1.s.expected_buffer_size)
        THEN [c1 EXCEPT !.crash = TRUE]     \* CHECK(filled < expected)
        ELSE IF Lt32(buffer_left, U32(amt))
        THEN cleanupBufferInProgress(Call(c1, [op |-> "extra data"]))
        ELSE IF BufferFull(c2.s) THEN processCompletedBuffer(c2, env)
        ELSE c2

\* AAH_RXPlayer::Substream::shutdown
SubstreamShutdown(c) ==
    cleanupDecoder(cleanupBufferInProgress(
        [c EXCEPT !.s.substream_meta = NULL, !.s.status = OK]))

\* AAH_RXPlayer::Substream::processTSTransform
processTSTransform(c, trans) ==
    [Call(c, [op |-> "setRenderTSTransform", trans |-> trans])
       EXCEPT !.p = setRenderTSTransform(c.p, trans)]

-----------------------------------------------------------------------------
(* The sender.  A packet is a TRTP audio header and the bytes that follow  *)
(* it (aux data, then the access unit); the sender cuts it into one        *)
(* fragment-start and any number of continuations.                         *)

\* header fields of a well-formed MP3 random access point
BaseHdr ==
    [ version |-> 1, header_type |-> kHeaderTypeAudio,
      ts_valid |-> TRUE, tt |-> FALSE, ts_upper |-> U32(0),
      codec |-> kCodecMPEG1Audio, rap |-> TRUE, has_aux |-> FALSE,
      volume |-> 255 ]

HdrLen(h) == 6 + (IF h.ts_valid THEN 4 ELSE 0) + (IF h.tt THEN 24 ELSE 0)
               + 3 + (IF h.has_aux THEN 4 ELSE 0)

\* a packet whose length fields are trtp_len and aux_len
RawPkt(h, trtp_len, aux_len, aux, payload, ts_lower) ==
    [ h |-> h, trtp_len |-> trtp_len, aux_len |-> aux_len,
      aux |-> aux, payload |-> payload, ts_lower |-> ts_lower ]

\* a packet whose length fields say what it carries
Pkt(h, aux, payload) ==
    RawPkt(h, U32(HdrLen(h) + Len(aux) + Len(payload)), U32(Len(aux)),
           aux, payload, U32(5))

Zeros(n) == [i \in 1..n |-> 0]

\* the TRTP header of packet pk on the wire
Encode(pk) ==
    LET h == pk.h IN
        <<h.version,
          h.header_type * 16 + (IF h.ts_valid THEN kFlag_TSValid ELSE 0)
                             + (IF h.tt THEN kFlag_TSTransformPresent ELSE 0)>>
        \o Bytes32(pk.trtp_len)
        \o (IF h.ts_valid THEN Bytes32(h.ts_upper) ELSE <<>>)
        \o (IF h.tt THEN Zeros(24) ELSE <<>>)
        \o <<h.codec,
             (IF h.rap THEN kFlag_RandomAccessPoint ELSE 0)
               + (IF h.has_aux THEN kFlag_AuxLengthPresent ELSE 0),
             h.volume>>
        \o (IF h.has_aux THEN Bytes32(pk.aux_len) ELSE <<>>)

Body(pk) == pk.aux \o pk.payload

\* packet pk on the wire
Wire(pk) == Encode(pk) \o Body(pk)

\* access units and aux data the sender has
Mp3Stereo == <<255, 251, 144, 0>>      \* MPEG1 layer III, 44100 Hz, stereo
Mp3Mono == <<255, 251, 144, 192>>      \* MPEG1 layer III, 44100 Hz, mono
Mp3Garbage == <<0, 0, 0, 0>>
Mp3Short == <<255, 251, 144>>
AacUnit == <<9>>
AacAux(rate, channels) == Bytes32(U32(rate)) \o Bytes32(U32(channels))

AacHdr == [BaseHdr EXCEPT !.codec = kCodecAACAudio, !.has_aux = TRUE]

\* A packet is valid when its header is well formed, its length fields say
\* what it carries, its codec can derive its metadata and it is a random
\* access point.
ValidPkt(pk) ==
    /\ pk.h.version = 1
    /\ pk.h.header_type = kHeaderTypeAudio
    /\ pk.h.rap
    /\ pk.trtp_len = U32(HdrLen(pk.h) + Len(pk.aux) + Len(pk.payload))
    /\ pk.aux_len = U32(Len(pk.aux))
    /\ pk.h.has_aux \/ pk.aux = <<>>
    /\ \/ pk.h.codec = kCodecMPEG1Audio /\ pk.payload \in {Mp3Stereo, Mp3Mono}
       \/ pk.h.codec = kCodecAACAudio /\ Len(pk.aux) >= 8 /\ pk.payload # <<>>

PkStereo == Pkt(BaseHdr, <<>>, Mp3Stereo)
PkMono == Pkt(BaseHdr, <<>>, Mp3Mono)
PkGarbage == Pkt(BaseHdr, <<>>, Mp3Garbage)
PkNonRap == Pkt([BaseHdr EXCEPT !.rap = FALSE], <<>>, Mp3Stereo)
PkVersion2 == Pkt([BaseHdr EXCEPT !.version = 2], <<>>, Mp3Stereo)
PkAac44 == Pkt(AacHdr, AacAux(44100, 2), AacUnit)
PkAac48 == Pkt(AacHdr, AacAux(48000, 2), AacUnit)
PkAacEsds == Pkt(AacHdr, AacAux(44100, 2) \o <<5>>, AacUnit)

\* the metadata setupMP3SubstreamMeta derives from an MP3 access unit
MetaOfUnit(unit) ==
    [ mime        |-> MEDIA_MIMETYPE_AUDIO_MPEG,
      channels    |-> GetMPEGAudioFrameSize(unit).channel_count,
      sample_rate |-> GetMPEGAudioFrameSize(unit).sample_rate,
      has_esds    |-> FALSE,
      esds        |-> <<>> ]

\* MP3 traffic: well-formed packets, then one odd field each
Mp3Packets ==
    { PkStereo, PkMono, PkGarbage, PkNonRap, PkVersion2,
      Pkt(BaseHdr, <<>>, Mp3Short),
      Pkt([BaseHdr EXCEPT !.ts_valid = FALSE], <<>>, Mp3Stereo),
      Pkt([BaseHdr EXCEPT !.tt = TRUE], <<>>, Mp3Stereo),
      Pkt([BaseHdr EXCEPT !.volume = 100], <<>>, Mp3Stereo),
      Pkt([BaseHdr EXCEPT !.has_aux = TRUE], <<7>>, Mp3Stereo),
      Pkt([BaseHdr EXCEPT !.header_type = kHeaderTypeVideo], <<>>, Mp3Stereo),
      Pkt([BaseHdr EXCEPT !.header_type = kHeaderTypeControl], <<>>, Mp3Stereo),
      Pkt([BaseHdr EXCEPT !.codec = kCodecPCMBigEndian], <<>>, Mp3Stereo),
      Pkt(BaseHdr, <<>>, <<>>),
      RawPkt(BaseHdr, U32(12), U32(0), <<>>, Mp3Stereo, U32(5)),
      RawPkt(BaseHdr, U32(16), U32(0), <<>>, Mp3Stereo, U32(5)) }

\* AAC traffic
AacPackets ==
    { PkAac44, PkAac48, PkAacEsds,
      Pkt(AacHdr, <<0, 0, 172, 68>>, AacUnit),
      Pkt([AacHdr EXCEPT !.has_aux = FALSE], <<>>, AacUnit),
      Pkt([AacHdr EXCEPT !.rap = FALSE], AacAux(44100, 2), AacUnit) }

\* the length of packet pk on the wire
WireLen(pk) == HdrLen(pk.h) + Len(Body(pk))

\* a byte that belongs to no packet
Stray == <<170>>

-----------------------------------------------------------------------------
(* State and actions                                                       *)

\* bound of the model: units waiting in in_queue_
MaxQueue == 1

\* what the platform does during one call of the substream: the MediaBuffer
\* allocation, OMXCodec::Create, Thread::run, and decoder_->start() if the
\* new work thread gets that far before the call returns
EnvOK == [alloc_ok |-> TRUE, create_ok |-> TRUE, run_ok |-> TRUE,
          start_res |-> "late"]

AllocEnvs == { EnvOK, [EnvOK EXCEPT !.alloc_ok = FALSE] }

InitEnvs == { EnvOK,
              [EnvOK EXCEPT !.create_ok = FALSE],
              [EnvOK EXCEPT !.run_ok = FALSE],
              [EnvOK EXCEPT !.start_res = UNKNOWN_ERROR] }

Envs == AllocEnvs \cup InitEnvs

\* the sender (observed): while a unit is being reassembled, the packet pk it
\* is sending, the bytes after the header delivered so far (sent) and those
\* still to come (rest)
IdleTx == [ live |-> FALSE, pk |-> NULL, sent |-> <<>>, rest |-> <<>> ]

Ctx == [s |-> sub, p |-> pump, calls |-> <<>>, crash |-> FALSE]

\* observed history: the failed decode steps, and those of them longer than
\* kLongDecodeErrorThreshold, since the work thread started or last produced
\* output; a random access point accepted since construction or shutdown(),
\* a unit accepted by the renderer since construction or shutdown()
NewHist == [ run_errors |-> 0, run_long |-> 0, rap_seen |-> FALSE,
             rendered |-> FALSE ]

\* the threads of a pump just constructed: the owner outside any call, no
\* work thread, both mutexes free
ThreadsNew ==
    [ cpc          |-> "idle",   \* the caller: idle, or its place in a call
      arg          |-> 0,        \* the argument of the call it is in
      w            |-> "none",   \* the work thread's place (see SpecThreads)
      after        |-> "none",   \* where stopAndCleanupRenderer returns to
      exitPending  |-> FALSE,    \* Thread::exitPending()
      thread_lock  |-> "none",   \* holder of thread_lock_
      render_lock  |-> "none",   \* holder of render_lock_
      sink         |-> "none",   \* the TimedAudioTrack object: none | live | deleted
      got          |-> 0,        \* what read() gave the decoder in this step
      next_id      |-> 1,        \* units are numbered as they are offered
      accepted     |-> <<>>,     \* units queueForDecode returned OK for
      taken        |-> <<>> ]    \* units that left in_queue_, and how

Init ==
    /\ sub = SubstreamNew
    /\ pump = PumpNew
    /\ calls = <<>>
    /\ tx = IdleTx
    /\ hist = NewHist
    /\ crashed = FALSE
    /\ thr = ThreadsNew

\* the positions of log at which operation o was logged (see Call)
Logged(log, o) == {i \in 1..Len(log) : log[i].op = o}

\* an operation of the owner returns with context c
Returns(c, rap_seen) ==
    /\ sub' = c.s
    /\ pump' = c.p
    /\ calls' = c.calls
    /\ crashed' = c.crash
    /\ hist' = [hist EXCEPT
                  !.rap_seen = rap_seen,
                  !.run_errors = IF c.p.wpc = "none" THEN 0 ELSE @,
                  !.run_long = IF c.p.wpc = "none" THEN 0 ELSE @,
                  !.rendered = IF c.p.wpc = "none" THEN FALSE ELSE @]
    /\ thr' = thr

\* processPayloadStart, called with the first cut bytes of packet pk,
\* returns with context c.
StartReturns(pk, cut, c) ==
    /\ Returns(c, hist.rap_seen
                    \/ (pk.h.rap /\ \E i \in Logged(c.calls, "alloc") :
                                       c.calls[i].ok))
    /\ tx' = IF c.s.buffer_in_progress # NULL
             THEN [ live |-> TRUE,
                    pk |-> pk,
                    sent |-> Drop(Take(Wire(pk), cut), HdrLen(pk.h)),
                    rest |-> Drop(Wire(pk), cut) ]
             ELSE IdleTx

\* The owner delivers a fragment-start: the first cut bytes of packet pk.
SubStart(pk, cut, env) ==
    /\ ~crashed
    /\ Len(pump.in_queue) < MaxQueue
    /\ StartReturns(pk, cut,
            processPayloadStart(Ctx, Take(Wire(pk), cut), pk.ts_lower, env))

\* processPayloadCont, called with the bytes buf of which the first n are
\* the packet's, returns with context c.
ContReturns(n, buf, c) ==
    /\ Returns(c, hist.rap_seen)
    /\ tx' = IF c.s.buffer_in_progress = NULL
             THEN IdleTx
             ELSE [tx EXCEPT !.sent = @ \o buf, !.rest = Drop(@, n)]

\* The owner delivers a continuation: the next n bytes of the packet being
\* sent, followed by the bytes of extra.
SubCont(n, extra, env) ==
    /\ ~crashed
    /\ Len(pump.in_queue) < MaxQueue
    /\ n <= Len(tx.rest)
    /\ n + Len(extra) > 0
    /\ ContReturns(n, Take(tx.rest, n) \o extra,
                   processPayloadCont(Ctx, Take(tx.rest, n) \o extra, env))

\* The owner calls shutdown().
SubShutdown ==
    /\ ~crashed
    /\ Returns(SubstreamShutdown(Ctx), FALSE)
    /\ tx' = IdleTx

\* The work thread gets to run decoder_->start(): it returns res.
Worker_Start(res) ==
    /\ ~crashed
    /\ pump.wpc = "start"
    /\ pump' = WorkerStart(pump, res)
    /\ calls' = <<>>
    /\ hist' = [hist EXCEPT !.run_errors = 0, !.run_long = 0]
    /\ tx' = tx
    /\ UNCHANGED <<sub, crashed, thr>>

\* The work thread runs one iteration of its loop.
Worker_Decode(kind, pull, res, durationUsecs, renv) ==
    /\ ~crashed
    /\ pump.wpc = "loop"
    /\ (pull \/ kind = "output") => pump.in_queue # <<>>
    /\ LET r == DecodeStep(pump, kind, pull \/ kind = "output", res,
                           durationUsecs, renv)
           failed == kind = "error"
           long == failed /\ durationUsecs > kLongDecodeErrorThreshold
       IN  /\ pump' = r.p
           /\ crashed' = r.crash
           /\ hist' = [hist EXCEPT
                         !.run_errors = IF failed THEN @ + 1
                                        ELSE IF kind = "output" THEN 0 ELSE @,
                         !.run_long = IF long THEN @ + 1
                                      ELSE IF kind = "output" THEN 0 ELSE @,
                         !.rendered = @ \/ (kind = "output" /\ renv = "ok"
                                               /\ ~r.crash)]
    /\ calls' = <<>>
    /\ tx' = tx
    /\ UNCHANGED <<sub, thr>>

\* An operation called on the pump directly returns with the pump p, having
\* logged entry.
PumpReturns(p, entry) ==
    /\ ~crashed
    /\ pump' = p
    /\ calls' = <<entry>>
    /\ hist' = [hist EXCEPT
                  !.run_errors = IF p.wpc = "none" THEN 0 ELSE @,
                  !.run_long = IF p.wpc = "none" THEN 0 ELSE @,
                  !.rendered = IF p.wpc = "none" THEN FALSE ELSE @]
    /\ UNCHANGED <<sub, tx, crashed, thr>>

\* init(params) is called on the pump.
Pump_init(params, create_ok, run_ok) ==
    LET r == PumpInit(pump, params, create_ok, run_ok)
    IN  PumpReturns(r.p, [op |-> "init", res |-> r.res])

\* queueForDecode(buf) is called on the pump.
Pump_queueForDecode(buf) ==
    /\ Len(pump.in_queue) < MaxQueue
    /\ LET r == queueForDecode(pump, buf)
       IN  PumpReturns(r.p, [op |-> "queueForDecode", res |-> r.res])

\* setRenderTSTransform(trans) is called on the pump.
Pump_setRenderTSTransform(trans) ==
    PumpReturns(setRenderTSTransform(pump, trans),
                [op |-> "setRenderTSTransform", res |-> OK])

\* setRenderVolume(volume) is called on the pump.
Pump_setRenderVolume(volume) ==
    PumpReturns(setRenderVolume(pump, volume),
                [op |-> "setRenderVolume", res |-> OK])

\* isAboutToUnderflow(threshold) is called on the pump.
Pump_isAboutToUnderflow(threshold, clock, ub) ==
    PumpReturns(pump, [op |-> "isAboutToUnderflow",
                       res |-> isAboutToUnderflow(pump, threshold, clock, ub)])

\* shutdown() is called on the pump.
Pump_shutdown ==
    PumpReturns(PumpShutdown(pump), [op |-> "shutdown", res |-> OK])

-----------------------------------------------------------------------------
(* Spec: the substream driven by its owner with fragments of a few         *)
(* packets, the work thread of its pump running.                           *)

Packets == { PkStereo, PkMono, PkGarbage, PkNonRap, PkVersion2,
             PkAac44, PkAac48, PkAacEsds }

\* where the sender may cut packet pk: after the header and any number of
\* the bytes that follow it, or, for one packet, inside the header
Cuts(pk) == {HdrLen(pk.h) + n : n \in 0..Len(Body(pk))}
              \cup (IF pk = PkStereo THEN {5, 12} ELSE {})

\* the platform failures tried with a fragment-start and a continuation:
\* with the fragment that ends the packet
StartEnvs(pk, cut) == IF cut = WireLen(pk) THEN Envs ELSE {EnvOK}

ContEnvs(n, extra) == IF n = Len(tx.rest) /\ extra = <<>> THEN InitEnvs
                      ELSE {EnvOK}

\* bytes beyond the end of the packet may follow its last bytes
ContExtras(n) == IF n = Len(tx.rest) THEN {<<>>, Stray} ELSE {<<>>}

\* a slow failed decode step
SlowUsecs == kLongDecodeErrorThreshold + 1

Next ==
    \/ \E pk \in Packets : \E cut \in Cuts(pk) :
          \E env \in StartEnvs(pk, cut) : SubStart(pk, cut, env)
    \/ \E n \in 0..Len(tx.rest) : \E extra \in ContExtras(n) :
          \E env \in ContEnvs(n, extra) : SubCont(n, extra, env)
    \/ SubShutdown
    \/ \E res \in {OK, UNKNOWN_ERROR} : Worker_Start(res)
    \/ \E kind \in {"none", "error"}, pull \in BOOLEAN :
          Worker_Decode(kind, pull, ERROR_MALFORMED, SlowUsecs, "ok")

Spec == Init /\ [][Next]_vars

-----------------------------------------------------------------------------
(* SpecPump: a pump driven directly, its work thread decoding with         *)
(* failures short and long.                                                *)

\* the metadata and the unit the pump is given
StereoMeta == MetaOfUnit(Mp3Stereo)

PumpUnit == [NewMediaBuffer(U32(4), MEDIA_MIMETYPE_AUDIO_MPEG, TRUE,
                            MakeTs(U32(0), U32(5)))
               EXCEPT !.data = Mp3Stereo]

\* a failed decode step that is not a slow one
ShortUsecs == 1000

\* AAH_RXPlayer::Substream::kAboutToUnderflowThreshold, in microseconds
kAboutToUnderflowThreshold == 50000

\* the threshold the substream passes, and none
Thresholds == {I64(0, 0, 0, kAboutToUnderflowThreshold), TsZero}

\* the common time is 1000: times due before, at and after 1000 plus the
\* threshold, and the least and the greatest int64_t
Times == { I64(0, 0, 0, 999), I64(0, 0, 0, 1000), I64(0, 0, 0, 1001),
           I64(0, 0, 0, 50999), I64(0, 0, 0, 51000), I64(0, 0, 0, 51001),
           I64(32768, 0, 0, 0), I64(32767, 65535, 65535, 65535) }

\* what the common clock does during an isAboutToUnderflow
Clocks == [ time_ok : BOOLEAN, tt_now : {I64(0, 0, 0, 1000)},
            transform_ok : BOOLEAN, mapped : Times ]

\* the clocks of the queries made in SpecPump: the last unit due before and
\* after the common time plus the threshold, and a clock that cannot be read
QueryClocks == {clock \in Clocks :
                  /\ clock.transform_ok
                  /\ clock.mapped \in {I64(0, 0, 0, 1000), I64(0, 0, 0, 51001)}
                  /\ clock.time_ok \/ clock.mapped = I64(0, 0, 0, 1000)}

\* metadata without a sample rate, and without a channel count
NoRateMeta == [ mime |-> MEDIA_MIMETYPE_AUDIO_MPEG, channels |-> 1,
                has_esds |-> FALSE, esds |-> <<>> ]

NoChannelsMeta == [ mime |-> MEDIA_MIMETYPE_AUDIO_MPEG, sample_rate |-> 48000,
                    has_esds |-> FALSE, esds |-> <<>> ]

\* the arguments init is called with
InitFormats == {NULL, StereoMeta, NoRateMeta, NoChannelsMeta}

NextPump ==
    \/ \E params \in InitFormats, create_ok \in BOOLEAN :
          Pump_init(params, create_ok, TRUE)
    \/ Pump_queueForDecode(PumpUnit)
    \/ Pump_setRenderTSTransform(0)
    \/ \E volume \in {100, 255} : Pump_setRenderVolume(volume)
    \/ \E clock \in QueryClocks :
          Pump_isAboutToUnderflow(I64(0, 0, 0, kAboutToUnderflowThreshold),
                                  clock, FALSE)
    \/ Pump_shutdown
    \/ \E res \in {OK, UNKNOWN_ERROR} : Worker_Start(res)
    \/ \E kind \in {"output", "error"}, pull \in BOOLEAN,
          durationUsecs \in {ShortUsecs, SlowUsecs} :
          Worker_Decode(kind, pull, ERROR_MALFORMED, durationUsecs, "ok")

SpecPump == Init /\ [][NextPump]_vars

-----------------------------------------------------------------------------
(* SpecWorker: an initialized pump whose work thread meets every outcome   *)
(* of a decode step and of the render step.                                *)

\* a failed decode step that lasts exactly as long as the threshold
ThresholdUsecs == kLongDecodeErrorThreshold

\* what decoder_->read returns
ReadKinds == {"output", "none", "format_changed", "error"}

\* what the TimedAudioTrack does in queueToRenderer
RenderEnvs == {"ok", "set_fail", "transform_fail", "alloc_fail", "queue_fail"}

\* the transforms the owner sets
Transforms == {0, 1}

\* the durations tried with a decode step, and the render outcomes
StepUsecs(kind) == IF kind = "error"
                   THEN {ShortUsecs, ThresholdUsecs, SlowUsecs}
                   ELSE {ShortUsecs}

StepRenders(kind) == IF kind = "output" THEN RenderEnvs ELSE {"ok"}

NextWorker ==
    \/ \E create_ok \in BOOLEAN : Pump_init(StereoMeta, create_ok, TRUE)
    \/ Pump_queueForDecode(PumpUnit)
    \/ \E trans \in Transforms : Pump_setRenderTSTransform(trans)
    \/ Pump_shutdown
    \/ \E res \in {OK, UNKNOWN_ERROR} : Worker_Start(res)
    \/ \E kind \in ReadKinds, pull \in BOOLEAN :
          \E durationUsecs \in StepUsecs(kind), renv \in StepRenders(kind) :
              Worker_Decode(kind, pull, ERROR_MALFORMED, durationUsecs, renv)

SpecWorker == Init /\ [][NextWorker]_vars

-----------------------------------------------------------------------------
(* SpecThreads: the pump with its two threads taken one step at a time.    *)
(* The caller is the thread that owns the pump (init, queueForDecode, the  *)
(* render settings, shutdown); the work thread runs workThread, and the    *)
(* decode engine calls AAH_DecoderPump::read on it from decoder_->read().  *)
(* A step is one access to shared state, or a section under a mutex that   *)
(* every other party to that state takes as well.  thr.w, the work thread: *)
(*   none | start | top (the loop test) | decode (in decoder_->read) |     *)
(*   read_lock, read_check, read_block, read_wait, read_woken, read_pop    *)
(*   (in read) |                                                           *)
(*   stop (the loop is left) | td_check, td_delete, td_null (in            *)
(*   stopAndCleanupRenderer) | exited                                      *)

\* units the caller offers to queueForDecode in a run
MaxUnits == 2

\* the unit numbered id: its number is its presentation time
UnitNo(id) == [PumpUnit EXCEPT !.ts = [hi |-> U32(0), lo |-> U32(id)]]

\* read() gave the decode engine nothing: INVALID_OPERATION
NoData == -1

\* a step of one of the threads leaves the pump as p, the threads as t
ThreadStep(p, t) ==
    /\ ~crashed
    /\ pump' = p
    /\ thr' = t
    /\ UNCHANGED <<sub, calls, tx, hist, crashed>>

\* Condition::signal on thread_cond_: a thread waiting on it is made ready
Signalled(t) == IF t.w = "read_wait" THEN [t EXCEPT !.w = "read_woken"] ELSE t

\* init(): OMXCodec::Create and thread_->run, which clears the exit request
T_init(create_ok) ==
    /\ thr.cpc = "idle"
    /\ LET r == PumpInit(pump, StereoMeta, create_ok, TRUE)
       IN  ThreadStep(r.p, IF ~pump.decoder /\ r.p.decoder
                           THEN [thr EXCEPT !.w = "start",
                                            !.exitPending = FALSE]
                           ELSE thr)

\* queueForDecode: the test of thread_status_, made without a lock
T_queue_check ==
    /\ thr.cpc = "idle"
    /\ thr.next_id <= MaxUnits
    /\ IF pump.thread_status # OK
       THEN ThreadStep(pump, [thr EXCEPT !.next_id = @ + 1])
       ELSE ThreadStep(pump, [thr EXCEPT !.cpc = "q_push",
                                         !.arg = thr.next_id,
                                         !.next_id = @ + 1])

\* (variant) a push_back made without thread_lock_
T_queue_push_Unlocked ==
    /\ thr.cpc = "q_push"
    /\ ThreadStep([pump EXCEPT !.in_queue = Append(@, UnitNo(thr.arg))],
                  [thr EXCEPT !.cpc = "q_signal",
                              !.accepted = Append(@, UnitNo(thr.arg))])

\* queueForDecode: in_queue_.push_back(buf) under thread_lock_
T_queue_push ==
    /\ thr.cpc = "q_push"
    /\ thr.thread_lock = "none"
    /\ ThreadStep([pump EXCEPT !.in_queue = Append(@, UnitNo(thr.arg))],
                  [thr EXCEPT !.cpc = "q_signal",
                              !.accepted = Append(@, UnitNo(thr.arg))])

\* queueForDecode: thread_cond_.signal(); return OK
T_queue_signal ==
    /\ thr.cpc = "q_signal"
    /\ ThreadStep(pump, [Signalled(thr) EXCEPT !.cpc = "idle"])

\* setRenderVolume under render_lock_, up to the test of renderer_
T_volume(volume) ==
    /\ thr.cpc = "idle"
    /\ thr.render_lock = "none"
    /\ IF volume = pump.last_volume
       THEN ThreadStep(pump, thr)
       ELSE IF pump.renderer = NULL
       THEN ThreadStep([pump EXCEPT !.last_volume = volume], thr)
       ELSE ThreadStep([pump EXCEPT !.last_volume = volume],
                       [thr EXCEPT !.cpc = "v_use", !.arg = volume,
                                   !.render_lock = "caller"])

\* setRenderTSTransform under render_lock_, up to the test of renderer_
T_transform(trans) ==
    /\ thr.cpc = "idle"
    /\ thr.render_lock = "none"
    /\ IF pump.last_ts_transform_valid /\ trans = pump.last_ts_transform
       THEN ThreadStep(pump, thr)
       ELSE IF pump.renderer = NULL
       THEN ThreadStep([pump EXCEPT !.last_ts_transform = trans,
                                    !.last_ts_transform_valid = TRUE], thr)
       ELSE ThreadStep([pump EXCEPT !.last_ts_transform = trans,
                                    !.last_ts_transform_valid = TRUE],
                       [thr EXCEPT !.cpc = "x_use", !.arg = trans,
                                   !.render_lock = "caller"])

\* the call on the TimedAudioTrack that renderer_ named at the test, made by
\* setRenderVolume ("v_use") or setRenderTSTransform ("x_use").  On an
\* object that has been deleted since the test the behaviour is undefined:
\* the call may go unnoticed or the process may die.
T_sink_use ==
    /\ ~crashed
    /\ thr.cpc \in {"v_use", "x_use"}
    /\ thr' = [thr EXCEPT !.cpc = "idle", !.render_lock = "none"]
    /\ IF thr.sink = "live"
       THEN /\ pump' = [pump EXCEPT
                          !.renderer = IF thr.cpc = "v_use"
                                       THEN [@ EXCEPT !.volume = thr.arg]
                                       ELSE [@ EXCEPT !.transform = thr.arg]]
            /\ crashed' = FALSE
       ELSE /\ pump' = pump
            /\ crashed' \in BOOLEAN
    /\ UNCHANGED <<sub, calls, tx, hist>>

\* isAboutToUnderflow, all of it under render_lock_
T_underflow ==
    /\ thr.cpc = "idle"
    /\ thr.render_lock = "none"
    /\ ThreadStep(pump, thr)

\* shutdown_l: thread_->requestExit()
T_shutdown_request ==
    /\ thr.cpc = "idle"
    /\ ThreadStep(pump, [thr EXCEPT !.cpc = "s_signal", !.exitPending = TRUE])

\* shutdown_l: thread_cond_.signal()
T_shutdown_signal ==
    /\ thr.cpc = "s_signal"
    /\ ThreadStep(pump, [Signalled(thr) EXCEPT !.cpc = "s_join"])

\* the units shutdown_l releases, in the order of the queue
Released(q) == [i \in 1..Len(q) |-> [unit |-> q[i], how |-> "release"]]

\* shutdown_l: thread_->requestExitAndWait() returns once no work thread is
\* running; then the queue is released and the members are reset
T_shutdown_join ==
    /\ thr.cpc = "s_join"
    /\ thr.w \in {"none", "exited"}
    /\ ThreadStep(shutdown_l(pump),
                  [thr EXCEPT !.cpc = "idle", !.w = "none",
                              !.exitPending = FALSE,
                              !.taken = @ \o Released(pump.in_queue)])

\* the thread starts: workThread is not entered if exit is pending by then;
\* else thread_status_ = decoder_->start(format_), which returns res
W_start(res) ==
    /\ thr.w = "start"
    /\ IF thr.exitPending
       THEN ThreadStep([pump EXCEPT !.wpc = "exited"],
                       [thr EXCEPT !.w = "exited"])
       ELSE ThreadStep(WorkerStart(pump, res),
                       [thr EXCEPT !.w = IF res = OK THEN "top" ELSE "exited"])

\* while (!thread_->exitPending())
W_top ==
    /\ thr.w = "top"
    /\ ThreadStep(pump, [thr EXCEPT !.w = IF thr.exitPending THEN "stop"
                                          ELSE "decode",
                                    !.got = 0])

\* decoder_->read: the decode engine asks the pump for input
W_pull ==
    /\ thr.w = "decode"
    /\ thr.got = 0
    /\ ThreadStep(pump, [thr EXCEPT !.w = "read_lock"])

\* read: AutoMutex lock(&thread_lock_), and the same on return from wait
R_lock ==
    /\ thr.w \in {"read_lock", "read_woken"}
    /\ thr.thread_lock = "none"
    /\ ThreadStep(pump, [thr EXCEPT !.w = "read_check",
                                    !.thread_lock = "worker"])

\* read: the test of while (!exitPending() && in_queue_.empty())
R_check ==
    /\ thr.w = "read_check"
    /\ ThreadStep(pump, [thr EXCEPT !.w = IF ~thr.exitPending
                                             /\ pump.in_queue = <<>>
                                          THEN "read_block" ELSE "read_pop"])

\* read: thread_cond_.wait(thread_lock_) gives up the mutex and waits
R_wait ==
    /\ thr.w = "read_block"
    /\ ThreadStep(pump, [thr EXCEPT !.w = "read_wait",
                                    !.thread_lock = "none"])

\* a CHECK fails in a step of one of the threads
ThreadCrash ==
    /\ ~crashed
    /\ crashed' = TRUE
    /\ UNCHANGED <<sub, pump, calls, tx, hist, thr>>

\* (variant) a read that hands out the head of the queue even after the
\* exit request
PumpRead_Drain(p, exit_pending) ==
    IF p.in_queue # <<>>
    THEN [p |-> ReadHead(p), buffer |-> Head(p.in_queue)]
    ELSE [p |-> p, buffer |-> NULL]

\* AAH_DecoderPump::read from the end of its wait: the head of in_queue_ is
\* taken unless exit is pending; buffer NULL is INVALID_OPERATION
PumpRead(p, exit_pending) ==
    IF ~exit_pending
    THEN [p |-> ReadHead(p), buffer |-> Head(p.in_queue)]
    ELSE [p |-> p, buffer |-> NULL]

\* read: if (!exitPending()) take the head of in_queue_; return
R_pop ==
    /\ thr.w = "read_pop"
    /\ IF ~thr.exitPending /\ pump.in_queue = <<>>
       THEN ThreadCrash                            \* CHECK(!in_queue_.empty())
       ELSE LET r == PumpRead(pump, thr.exitPending)
            IN  ThreadStep(r.p,
                   [thr EXCEPT
                      !.w = "decode",
                      !.thread_lock = "none",
                      !.got = IF r.buffer = NULL THEN NoData
                              ELSE U32Val(r.buffer.ts.lo),
                      !.taken = IF r.buffer = NULL THEN @
                                ELSE Append(@, [unit |-> r.buffer,
                                                how |-> "pull"])])

\* decoder_->read returns "none" (OK, no buffer) or "format_changed"
W_result(kind) ==
    /\ thr.w = "decode"
    /\ thr.got # NoData
    /\ ThreadStep(pump, IF kind = "format_changed"
                        THEN [thr EXCEPT !.w = "td_check", !.after = "top"]
                        ELSE [thr EXCEPT !.w = "top"])

\* decoder_->read fails with res after durationUsecs
W_error(res, durationUsecs) ==
    /\ thr.w = "decode"
    /\ LET d == DecodeError(pump, res, durationUsecs)
       IN  IF d.wpc = "exited"                     \* thread_status_ = res; break
           THEN ThreadStep([d EXCEPT !.renderer = pump.renderer,
                                     !.wpc = "loop"],
                           [thr EXCEPT !.w = "stop"])
           ELSE ThreadStep(d, [thr EXCEPT !.w = "top"])

\* decoder_->read returns the unit it was given, decoded: queueToRenderer,
\* all of it under render_lock_
W_output ==
    /\ ~crashed
    /\ thr.w = "decode"
    /\ thr.got > 0
    /\ thr.render_lock = "none"
    /\ LET r == queueToRenderer([pump EXCEPT !.consecutive_errors = 0,
                                             !.consecutive_long_errors = 0],
                                UnitNo(thr.got), "ok")
       IN  /\ pump' = r.p
           /\ crashed' = r.crash
           /\ thr' = [thr EXCEPT !.w = "top",
                                 !.sink = IF r.p.renderer # NULL THEN "live"
                                          ELSE @]
    /\ UNCHANGED <<sub, calls, tx, hist>>

\* after the loop: decoder_->stop(), then stopAndCleanupRenderer()
W_stop ==
    /\ thr.w = "stop"
    /\ ThreadStep(pump, [thr EXCEPT !.w = "td_check", !.after = "exited"])

\* stopAndCleanupRenderer returns to the loop, or the thread ends
TeardownDone(p, t) ==
    ThreadStep([p EXCEPT !.wpc = IF t.after = "exited" THEN "exited" ELSE @],
               [t EXCEPT !.w = t.after])

\* stopAndCleanupRenderer: if (NULL == renderer_) return
TD_check ==
    /\ thr.w = "td_check"
    /\ IF pump.renderer = NULL
       THEN TeardownDone(pump, thr)
       ELSE ThreadStep(pump, [thr EXCEPT !.w = "td_delete"])

\* stopAndCleanupRenderer: renderer_->stop(); delete renderer_
TD_delete ==
    /\ thr.w = "td_delete"
    /\ ThreadStep(pump, [thr EXCEPT !.w = "td_null", !.sink = "deleted"])

\* stopAndCleanupRenderer: renderer_ = NULL
TD_null ==
    /\ thr.w = "td_null"
    /\ TeardownDone(stopAndCleanupRenderer(pump), [thr EXCEPT !.sink = "none"])

CallerNext ==
    \/ \E create_ok \in BOOLEAN : T_init(create_ok)
    \/ T_queue_check
    \/ T_queue_push
    \/ T_queue_signal
    \/ \E volume \in {100, 255} : T_volume(volume)
    \/ \E trans \in {0, 1} : T_transform(trans)
    \/ T_sink_use
    \/ T_underflow
    \/ T_shutdown_request
    \/ T_shutdown_signal
    \/ T_shutdown_join

WorkerNext ==
    \/ \E res \in {OK, UNKNOWN_ERROR} : W_start(res)
    \/ W_top
    \/ W_pull
    \/ R_lock
    \/ R_check
    \/ R_wait
    \/ R_pop
    \/ \E kind \in {"none", "format_changed"} : W_result(kind)
    \/ W_error(ERROR_MALFORMED, SlowUsecs)
    \/ W_output
    \/ W_stop
    \/ TD_check
    \/ TD_delete
    \/ TD_null

NextThreads == CallerNext \/ WorkerNext

SpecThreads == Init /\ [][NextThreads]_vars

-----------------------------------------------------------------------------
(* Properties of the reassembly.  They are stated in every reachable state *)
(* of Spec, about every fragment the owner may deliver next.               *)

AllPackets == Mp3Packets \cup AacPackets

ValidPackets == {pk \in AllPackets : ValidPkt(pk)}

\* valid but for the random access flag
NonRapPackets ==
    {pk \in AllPackets : ~pk.h.rap /\ ValidPkt([pk EXCEPT !.h.rap = TRUE])}

\* processPayloadStart called now with the first cut bytes of packet pk
StartOf(pk, cut, env) ==
    processPayloadStart(Ctx, Take(Wire(pk), cut), pk.ts_lower, env)

\* processPayloadCont called now with the bytes buf
ContOf(buf, env) == processPayloadCont(Ctx, buf, env)

\* the entries of log for operation o, in order
Entries(log, o) == SelectSeq(log, LAMBDA e : e.op = o)

\* setupSubstreamType accepts the codec of packet pk
CodecFits(pk) == ~sub.substream_details_known \/ sub.codec_type = pk.h.codec

\* the cuts of packet pk that leave its header whole
BodyCuts(pk) == {HdrLen(pk.h) + n : n \in 0..Len(Body(pk))}

\* bytes the unit in progress still takes: aux data left plus payload left
Remaining(s) ==
    U32Val(Sub32(s.aux_data_expected_size, U32(Len(s.aux_data_in_progress))))
      + U32Val(Sub32(s.expected_buffer_size, U32(s.buffer_filled)))

\* C1: a valid packet delivered whole as one fragment-start, to a substream
\* that has no terminal status and knows no other codec, is handed to
\* queueForDecode exactly once, as a unit whose length is the declared total
\* length minus the header length minus the declared aux length.
C1_SingleFragmentOneUnit ==
    \A pk \in ValidPackets, env \in Envs :
        (sub.status = OK /\ CodecFits(pk) /\ env.alloc_ok) =>
            LET c == StartOf(pk, WireLen(pk), env)
                q == Entries(c.calls, "queueForDecode")
            IN  /\ Len(q) = 1
                /\ Len(Entries(c.calls, "completed")) = 1
                /\ U32Val(q[1].buf.size) =
                      U32Val(pk.trtp_len) - HdrLen(pk.h) - U32Val(pk.aux_len)
                /\ q[1].buf.data = pk.payload
                /\ c.s.buffer_in_progress = NULL

\* a single fragment-start has just been reassembled into a unit of four
\* bytes and queued
C1_Witness ==
    /\ Logged(calls, "alloc") # {}
    /\ \E i \in Logged(calls, "queueForDecode") :
          calls[i].res = OK /\ calls[i].buf.size = U32(4)
    /\ pump.in_queue # <<>>

\* C2: once the substream has accepted a random access point, every later
\* fragment-start that is valid but for the random access flag is accepted
\* for reassembly (a buffer is allocated for it).
C2_GateStaysCleared ==
    \A pk \in NonRapPackets :
        (hist.rap_seen /\ sub.status = OK /\ CodecFits(pk)) =>
            Logged(StartOf(pk, WireLen(pk), EnvOK).calls, "alloc") # {}

\* the MIME type of a codec
MimeOf(codec) == IF codec = kCodecMPEG1Audio THEN MEDIA_MIMETYPE_AUDIO_MPEG
                 ELSE MEDIA_MIMETYPE_AUDIO_AAC

\* C3: every unit handed to queueForDecode carries the MIME type of its
\* codec, and no aux data when it is MP3 without an aux length field.
C3_EveryUnitTagged ==
    \A pk \in ValidPackets :
        (sub.status = OK /\ CodecFits(pk)) =>
            LET c == StartOf(pk, WireLen(pk), EnvOK)
                q == Entries(c.calls, "queueForDecode")
                done == Entries(c.calls, "completed")
            IN  /\ \A i \in 1..Len(q) : q[i].buf.mime = MimeOf(pk.h.codec)
                /\ (pk.h.codec = kCodecMPEG1Audio /\ ~pk.h.has_aux) =>
                      \A i \in 1..Len(done) : done[i].aux = <<>>

\* C4: while a valid packet is being reassembled, a continuation that
\* carries some of its remaining bytes leaves the unit in progress, and the
\* one that carries the last of them completes a unit and aux data equal to
\* those the packet completes when delivered whole as one fragment-start.
C4_FragmentsEqualSingle ==
    (tx.live /\ ValidPkt(tx.pk)) =>
        \A n \in 1..Len(tx.rest) :
            LET c == ContOf(Take(tx.rest, n), EnvOK)
                done == Entries(c.calls, "completed")
                single == Entries(StartOf(tx.pk, WireLen(tx.pk), EnvOK).calls,
                                  "completed")
            IN  IF n < Len(tx.rest)
                THEN done = <<>> /\ c.s.buffer_in_progress # NULL
                ELSE Len(single) = 1 /\ done = single

\* a continuation has just completed a unit with aux data and queued it
C4_Witness ==
    /\ Logged(calls, "alloc") = {}
    /\ \E i \in Logged(calls, "completed") :
          Len(calls[i].aux) = 8 /\ calls[i].buf.data = AacUnit
    /\ \E i \in Logged(calls, "queueForDecode") : calls[i].res = OK

\* C5: a continuation with more bytes than the unit in progress still takes
\* is rejected: the buffer is released, nothing is completed or queued, the
\* pump is not touched, the status stays OK; and a valid fragment-start
\* delivered next accumulates exactly the bytes that follow its own header.
C5_OverflowRejected ==
    tx.live =>
        \A extra \in {Stray, Stray \o Stray} :
            LET buf == tx.rest \o extra
                c == ContOf(buf, EnvOK)
            IN  Len(buf) > Remaining(sub) =>
                  /\ c.s.buffer_in_progress = NULL
                  /\ Entries(c.calls, "release") =
                        <<[op |-> "release", buf |-> sub.buffer_in_progress]>>
                  /\ Entries(c.calls, "completed") = <<>>
                  /\ Entries(c.calls, "queueForDecode") = <<>>
                  /\ c.p = pump
                  /\ c.s.status = OK
                  /\ ~c.crash
                  /\ \A pk \in ValidPackets : \A cut \in BodyCuts(pk) :
                        CodecFits(pk) =>
                          LET got == Drop(Take(Wire(pk), cut), HdrLen(pk.h))
                              c2 == processPayloadStart(
                                        [c EXCEPT !.calls = <<>>],
                                        Take(Wire(pk), cut), pk.ts_lower, EnvOK)
                              done == Entries(c2.calls, "completed")
                          IN  IF cut < WireLen(pk)
                              THEN /\ c2.s.buffer_in_progress # NULL
                                   /\ c2.s.aux_data_in_progress
                                        \o c2.s.buffer_in_progress.data = got
                              ELSE /\ Len(done) = 1
                                   /\ done[1].aux \o done[1].buf.data = got

\* a continuation has just been rejected for its extra data
C5_Witness ==
    /\ Logged(calls, "extra data") # {}
    /\ Logged(calls, "release") # {}
    /\ sub.buffer_in_progress = NULL
    /\ sub.status = OK

\* C7: when the pump holds a terminal status that the substream has not
\* recorded, the next unit the substream completes records that status in
\* status_.
C7_TerminalSurfaces ==
    \A pk \in ValidPackets, env \in InitEnvs :
        (pump.thread_status # OK /\ sub.status = OK /\ CodecFits(pk)) =>
            LET c == StartOf(pk, WireLen(pk), env)
            IN  Entries(c.calls, "completed") # <<>> =>
                    c.s.status = pump.thread_status

\* context c comes out of a call in which the pump rejected a unit: the
\* substream has recorded the pump's status, then shut the pump down and
\* released the unit
RejectionHandled(c) ==
    \A k \in Logged(c.calls, "queueForDecode") :
        c.calls[k].res # OK =>
            /\ c.s.status = c.calls[k].res
            /\ \E i \in Logged(c.calls, "shutdown") : i > k
            /\ \E i \in Logged(c.calls, "release") :
                  i > k /\ c.calls[i].buf = c.calls[k].buf
            /\ ~c.p.decoder /\ c.p.wpc = "none" /\ c.p.in_queue = <<>>
            /\ c.s.buffer_in_progress = NULL

\* fragments the owner may deliver at any time
AnyBytes == {Stray, Mp3Stereo, tx.rest \o Stray} \cup
            {Take(tx.rest, n) : n \in 1..Len(tx.rest)}

\* C8: when queueForDecode rejects a completed unit, the substream records
\* the pump's status in status_, shuts the pump down and releases the unit;
\* while status_ is not OK every processPayloadStart and processPayloadCont
\* changes nothing and calls nothing; shutdown() sets status_ back to OK.
C8_RejectionStopsSubstream ==
    /\ \A pk \in ValidPackets, env \in InitEnvs :
          (sub.status = OK /\ CodecFits(pk)) =>
              RejectionHandled(StartOf(pk, WireLen(pk), env))
    /\ \A env \in InitEnvs :
          tx.live => RejectionHandled(ContOf(tx.rest, env))
    /\ sub.status # OK =>
          /\ \A pk \in AllPackets, env \in Envs : \A cut \in BodyCuts(pk) :
                StartOf(pk, cut, env) = Ctx
          /\ \A buf \in AnyBytes, env \in Envs : ContOf(buf, env) = Ctx
          /\ SubstreamShutdown(Ctx).s.status = OK

\* the pump has just rejected a unit and the substream has recorded it
C8_Witness ==
    /\ sub.status # OK
    /\ \E k \in Logged(calls, "queueForDecode") : calls[k].res = sub.status
    /\ Logged(calls, "shutdown") # {}

\* the metadata setupSubstreamMeta derives from packet pk
MetaOf(pk) ==
    IF pk.h.codec = kCodecMPEG1Audio
    THEN MetaOfUnit(pk.payload)
    ELSE [ mime        |-> MEDIA_MIMETYPE_AUDIO_AAC,
           channels    |-> Int32Of(U32_AT(pk.aux, 4)),
           sample_rate |-> Int32Of(U32_AT(pk.aux, 0)),
           has_esds    |-> Len(pk.aux) > 8,
           esds        |-> Drop(pk.aux, 8) ]

\* the sample rate or the channel count of packet pk differs from the
\* metadata the substream holds
FormatDiffers(pk) ==
    /\ sub.substream_meta # NULL
    /\ \/ sub.substream_meta.sample_rate # MetaOf(pk).sample_rate
       \/ sub.substream_meta.channels # MetaOf(pk).channels

\* C10 as stated: when the sample rate or channel count of a completed unit
\* differs from the metadata held, the pump is shut down before the unit is
\* enqueued and the unit is enqueued to a pump initialised with the new
\* metadata; when they do not differ the pump is not shut down.
C10_TeardownThenEnqueue ==
    \A pk \in ValidPackets, env \in InitEnvs :
        (sub.status = OK /\ CodecFits(pk)) =>
            LET c == StartOf(pk, WireLen(pk), env)
                shut == Logged(c.calls, "shutdown")
                que == Logged(c.calls, "queueForDecode")
            IN  IF FormatDiffers(pk)
                THEN \E i \in shut, k \in que :
                        /\ i < k
                        /\ c.calls[k].res = OK
                        /\ c.calls[k].decoder
                        /\ c.calls[k].format = MetaOf(pk)
                ELSE shut = {}

\* C10: when the sample rate or channel count of a completed unit differs
\* from the metadata held, the substream shuts the pump down, then calls
\* init with the new metadata, then hands the unit to queueForDecode, in
\* that order; when no metadata is held yet, or the unit's metadata equals
\* it, no shutdown precedes the call of queueForDecode.
C10_TeardownBeforeInit ==
    \A pk \in ValidPackets, env \in InitEnvs :
        (sub.status = OK /\ CodecFits(pk)) =>
            LET c == StartOf(pk, WireLen(pk), env)
                shut == Logged(c.calls, "shutdown")
                ini == Logged(c.calls, "init")
                que == Logged(c.calls, "queueForDecode")
            IN  /\ FormatDiffers(pk) =>
                    \E i \in shut, j \in ini, k \in que :
                        /\ i < j /\ j < k
                        /\ c.calls[j].params = MetaOf(pk)
                        /\ c.calls[k].buf.data = pk.payload
                /\ (sub.substream_meta = NULL \/ sub.substream_meta = MetaOf(pk)) =>
                    \A i \in shut, k \in que : i > k

\* a unit with another channel count has just shut the pump down, started a
\* new one with the new metadata and been queued to it
C10_Witness ==
    \E i \in Logged(calls, "shutdown"), j \in Logged(calls, "init"),
       k \in Logged(calls, "queueForDecode") :
        /\ i < j /\ j < k
        /\ calls[j].params.channels = 1
        /\ calls[k].res = OK /\ calls[k].decoder

-----------------------------------------------------------------------------
(* Properties of the pump, checked under SpecPump.                         *)

\* C6: after 60 consecutive failed decode steps, or 3 consecutive failed
\* decode steps each longer than kLongDecodeErrorThreshold, the work thread
\* has recorded the error in thread_status_ and left its loop, and while
\* thread_status_ holds it queueForDecode fails with it and queues nothing.
C6_ErrorBudget ==
    /\ (hist.run_errors >= kMaxErrorsBeforeFatal
          \/ hist.run_long >= kMaxLongErrorsBeforeFatal) =>
            pump.thread_status = ERROR_MALFORMED /\ pump.wpc = "exited"
    /\ pump.thread_status # OK =>
            /\ queueForDecode(pump, PumpUnit).res = pump.thread_status
            /\ queueForDecode(pump, PumpUnit).p = pump
    /\ \A k \in Logged(calls, "queueForDecode") :
          calls[k].res = pump.thread_status

\* sixty failed decode steps in a row, none of them slow, have ended the
\* work thread, and a unit has been refused since
C6_Witness ==
    /\ hist.run_errors = kMaxErrorsBeforeFatal
    /\ hist.run_long = 0
    /\ pump.consecutive_long_errors < kMaxLongErrorsBeforeFatal
    /\ calls = <<[op |-> "queueForDecode", res |-> ERROR_MALFORMED]>>

\* C9: a terminal thread_status_ stays as it is through queueForDecode,
\* init, setRenderTSTransform, setRenderVolume, isAboutToUnderflow and the
\* work thread (which has exited); only shutdown sets it back to OK.
C9_TerminalSticky ==
    /\ [](pump.thread_status # OK =>
            /\ pump.wpc = "exited"
            /\ queueForDecode(pump, PumpUnit).p.thread_status
                  = pump.thread_status
            /\ \A params \in {NULL, StereoMeta}, create_ok, run_ok \in BOOLEAN :
                  PumpInit(pump, params, create_ok, run_ok).p.thread_status
                      = pump.thread_status
            /\ \A trans \in {0, 1} :
                  setRenderTSTransform(pump, trans).thread_status
                      = pump.thread_status
            /\ \A volume \in {0, 100, 255} :
                  setRenderVolume(pump, volume).thread_status
                      = pump.thread_status
            /\ PumpShutdown(pump).thread_status = OK)
    /\ [][pump.thread_status # OK =>
            \/ pump'.thread_status = pump.thread_status
            \/ calls' = <<[op |-> "shutdown", res |-> OK]>>]_vars

\* a terminal status has just outlived a call of init
C9_Witness ==
    /\ pump.thread_status # OK
    /\ calls = <<[op |-> "init", res |-> OK]>>

-----------------------------------------------------------------------------
(* Properties of the pump's threads (SpecThreads).                         *)

\* the caller is in shutdown_l, blocked in requestExitAndWait() until the
\* work thread ends
JoinBlocked == thr.cpc = "s_join" /\ thr.w \notin {"none", "exited"}

\* the work thread can take no step: it waits on thread_cond_, which only
\* the caller signals
WorkerWaits == thr.w = "read_wait"

\* C11: every call to shutdown() returns: a caller blocked in the join of
\* shutdown() never has a work thread that waits in read() for a signal,
\* whichever way the exit request and the signal of the caller fall between
\* the test and the wait of read()
C11_ShutdownReturns == ~(JoinBlocked /\ WorkerWaits)

\* what shutdown() leaves of a pump
ShutDown(q) ==
    /\ q.thread_status = OK
    /\ ~q.last_queued_pts_valid
    /\ ~q.last_ts_transform_valid
    /\ q.last_volume = 255
    /\ q.in_queue = <<>>
    /\ ~q.decoder
    /\ q.renderer = NULL

\* C12: after shutdown() the status is OK, the last queued timestamp and the
\* transform are not valid, the volume is 0xFF, the queue is empty, decoder
\* and renderer are gone, whatever the pump was like when it was called
C12_ShutdownResets ==
    /\ ShutDown(PumpShutdown(pump))
    /\ (Logged(calls, "shutdown") # {}) => ShutDown(pump)

\* shutdown() may be called on a pump that has a unit queued, a renderer with
\* a transform and a volume set, and a unit rendered
C12_Witness ==
    /\ pump.in_queue # <<>>
    /\ pump.renderer # NULL
    /\ pump.last_volume # 255
    /\ pump.last_queued_pts_valid
    /\ pump.last_ts_transform_valid
    /\ ShutDown(PumpShutdown(pump))

\* the units that have left in_queue_, in the order they left
TakenUnits == [i \in 1..Len(thr.taken) |-> thr.taken[i].unit]

\* C13: the units queueForDecode accepted leave the queue in the order they
\* were accepted, each one once, through read() or through the release of
\* shutdown(); those that have not left are queued, and none is once
\* shutdown() has returned
C13_FifoExactlyOnce ==
    /\ [](thr.accepted = TakenUnits \o pump.in_queue)
    /\ [](\A i, j \in 1..Len(thr.accepted) :
             i # j => thr.accepted[i] # thr.accepted[j])
    /\ [][(thr.cpc = "s_join" /\ thr'.cpc = "idle")
             => (pump'.in_queue = <<>>
                   /\ thr'.accepted = [i \in 1..Len(thr'.taken) |->
                                          thr'.taken[i].unit])]_vars

\* of two units accepted the work thread has read the first, and shutdown()
\* has released the second
C13_Witness ==
    /\ thr.cpc = "idle"
    /\ thr.taken = <<[unit |-> UnitNo(1), how |-> "pull"],
                     [unit |-> UnitNo(2), how |-> "release"]>>

\* read() returns to the decode engine in this step
ReadReturns == thr.w = "read_pop" /\ thr'.w = "decode"

\* read() returns the head of the queue, which it has removed
ReturnsHead ==
    /\ pump.in_queue # <<>>
    /\ thr'.got = U32Val(Head(pump.in_queue).ts.lo)
    /\ pump'.in_queue = Tail(pump.in_queue)

\* read() returns INVALID_OPERATION and leaves the queue alone
ReturnsNoData == thr'.got = NoData /\ pump'.in_queue = pump.in_queue

\* read() goes to wait when it finds the queue empty and no exit requested
ReadBlocks ==
    (thr.w = "read_check" /\ thr'.w # "read_check"
        /\ ~thr.exitPending /\ pump.in_queue = <<>>)
      => thr'.w = "read_block"

\* C14 as stated: read() waits while the queue is empty and no exit is
\* requested; it returns "no more data" if exit is requested and the queue is
\* empty, and in every other case in which it returns it returns the head
C14_PullAsStated ==
    [][/\ ReadBlocks
       /\ ReadReturns => IF thr.exitPending /\ pump.in_queue = <<>>
                         THEN ReturnsNoData ELSE ReturnsHead]_vars

\* C14: read() waits while the queue is empty and no exit is requested; it
\* returns "no more data", leaving the queue as it is, whenever exit is
\* requested by the time it stops waiting, and otherwise returns the head
C14_PullReturns ==
    [][/\ ReadBlocks
       /\ ReadReturns => IF thr.exitPending
                         THEN ReturnsNoData ELSE ReturnsHead]_vars

\* read() has returned "no more data" with a unit in the queue
C14_Witness ==
    /\ thr.w = "decode"
    /\ thr.got = NoData
    /\ pump.in_queue # <<>>

\* C15: a unit is appended to in_queue_ only while thread_status_ is OK,
\* never after the work thread has recorded a terminal status, however
\* queueForDecode and the work thread interleave
C15_NoAppendAfterTerminal ==
    [][Len(pump'.in_queue) > Len(pump.in_queue)
          => pump.thread_status = OK]_vars

\* C16: the renderer is torn down and used under render_lock_ only, so a
\* setRenderTSTransform or setRenderVolume that has found renderer_ set and
\* is about to call it, holding the lock, calls a live TimedAudioTrack, not
\* one the work thread has deleted meanwhile
C16_SinkUsedUnderLock ==
    thr.cpc \in {"v_use", "x_use"}
        => (thr.render_lock = "caller" /\ thr.sink = "live")

\* context c comes out of a call that offered a unit to the pump: a unit the
\* pump rejected has been released by the substream, once; a unit it
\* accepted is the last of the queue and the substream has not released it
OwnershipFollows(c) ==
    \A k \in Logged(c.calls, "queueForDecode") :
        LET released == {i \in Logged(c.calls, "release") :
                            i > k /\ c.calls[i].buf = c.calls[k].buf}
        IN  IF c.calls[k].res # OK
            THEN Cardinality(released) = 1
            ELSE /\ released = {}
                 /\ c.p.in_queue # <<>>
                 /\ c.p.in_queue[Len(c.p.in_queue)] = c.calls[k].buf
                 /\ c.s.buffer_in_progress = NULL

\* C17: queueForDecode on a pump whose status is terminal returns that
\* status and leaves the pump as it was, and the unit is the caller's to
\* release; on any other pump it appends the unit at the tail of the queue,
\* changes nothing else and returns OK, and the unit is the pump's
C17_EnqueueOutcome ==
    /\ LET r == queueForDecode(pump, UnitNo(2))
       IN  IF pump.thread_status # OK
           THEN r.res = pump.thread_status /\ r.p = pump
           ELSE /\ r.res = OK
                /\ r.p.in_queue = pump.in_queue \o <<UnitNo(2)>>
                /\ [r.p EXCEPT !.in_queue = pump.in_queue] = pump
    /\ \A pk \in ValidPackets, env \in InitEnvs :
          (sub.status = OK /\ CodecFits(pk)) =>
              OwnershipFollows(StartOf(pk, WireLen(pk), env))
    /\ \A env \in InitEnvs :
          tx.live => OwnershipFollows(ContOf(tx.rest, env))

\* a unit is queued on a pump whose status is terminal, and the substream
\* is about to offer it another
C17_Witness ==
    /\ pump.thread_status # OK
    /\ pump.in_queue # <<>>
    /\ sub.status = OK
    /\ \E pk \in ValidPackets :
          /\ CodecFits(pk)
          /\ \E k \in Logged(StartOf(pk, WireLen(pk), EnvOK).calls,
                             "queueForDecode") :
                StartOf(pk, WireLen(pk), EnvOK).calls[k].res
                    = pump.thread_status

\* C18: init fails when the decoder cannot be created and then leaves the
\* pump uninitialized; it returns OK only with the work thread started, so
\* no unit is ever queued on a pump without a work thread
C18_InitFailureReported ==
    /\ \A env \in InitEnvs :
          LET r == PumpInit(pump, StereoMeta, env.create_ok, env.run_ok)
          IN  /\ (~pump.decoder /\ ~env.create_ok)
                    => (r.res # OK /\ ~r.p.decoder /\ r.p.wpc = "none")
              /\ r.res = OK => (r.p.decoder /\ r.p.wpc # "none")
    /\ pump.in_queue # <<>> => (pump.decoder /\ pump.wpc # "none")

\* C19: init on a pump that has a decoder returns OK and changes nothing of
\* the pump (format, decoder, work thread, queue, status), whatever its
\* argument, one without a channel count or a sample rate and NULL included,
\* and whether the pump's status is terminal or not
C19_InitIdempotent ==
    pump.decoder =>
        \A params \in InitFormats, create_ok, run_ok \in BOOLEAN :
            PumpInit(pump, params, create_ok, run_ok)
                = [p |-> pump, res |-> OK]

\* init has just returned on a pump that has a decoder, a unit queued and a
\* terminal status
C19_Witness ==
    /\ pump.decoder
    /\ pump.thread_status # OK
    /\ pump.in_queue # <<>>
    /\ Logged(calls, "init") # {}
    /\ PumpInit(pump, NoRateMeta, TRUE, TRUE).res = OK

\* x > y for int64_t values
Gt64(x, y) ==
    IF Neg64(x) # Neg64(y) THEN Neg64(y)
    ELSE Lt32(y.hi, x.hi) \/ (y.hi = x.hi /\ Lt32(y.lo, x.lo))

\* now + threshold > due, in the integers
SumExceeds(now, threshold, due) ==
    IF AddOverflows(now, threshold) THEN ~Neg64(now)
    ELSE Gt64(Add64(now, threshold), due)

\* C20: isAboutToUnderflow(threshold) is false when no unit has been
\* accepted by the renderer since construction or the last shutdown, when no
\* transform is stored, when the common time cannot be read and when the
\* transform fails; otherwise it is true exactly when the common time plus
\* threshold is greater than the time the last queued unit is due
C20_UnderflowQuery ==
    \A threshold \in Thresholds, clock \in Clocks, ub \in BOOLEAN :
        isAboutToUnderflow(pump, threshold, clock, ub)
            = IF ~hist.rendered \/ ~pump.last_ts_transform_valid
                    \/ ~clock.time_ok \/ ~clock.transform_ok
              THEN FALSE
              ELSE SumExceeds(clock.tt_now, threshold, clock.mapped)

-----------------------------------------------------------------------------
(* Properties of the substream's type, of its render settings and of the   *)
(* work thread's exits.                                                    *)

\* processPayloadStart with packet pk leaves nothing behind: no MediaBuffer
\* allocated, no unit offered to the pump, no volume passed to the pump
DropsStart(c) ==
    /\ Logged(c.calls, "alloc") = {}
    /\ Logged(c.calls, "queueForDecode") = {}
    /\ Logged(c.calls, "setRenderVolume") = {}
    /\ c.p = pump
    /\ c.s.buffer_in_progress = NULL
    /\ ~c.crash

\* substream s has the type and codec the substream knows now
SameType(s) ==
    /\ s.substream_details_known
    /\ s.codec_type = sub.codec_type
    /\ s.substream_type = sub.substream_type

\* the call that returned c kept the type, and dropped the fragment-start
\* if it named another codec
KeepsType(c, other_codec) ==
    /\ SameType(c.s)
    /\ other_codec => DropsStart(c)

\* C21: once the substream knows its type and codec, nothing the owner can
\* call next changes them (a fragment-start, a continuation with or without
\* a completion and a format change, shutdown()), and a fragment-start that
\* names another codec is dropped: no buffer is allocated, nothing is queued
\* and the pump's volume is not set
C21_TypeFixed ==
    sub.substream_details_known =>
        /\ \A pk \in AllPackets : \A cut \in BodyCuts(pk) :
              \A env \in StartEnvs(pk, cut) :
                  KeepsType(StartOf(pk, cut, env),
                            sub.status = OK /\ pk.h.codec # sub.codec_type)
        /\ \A n \in 0..Len(tx.rest) : \A extra \in ContExtras(n) :
              \A env \in ContEnvs(n, extra) :
                  KeepsType(ContOf(Take(tx.rest, n) \o extra, env), FALSE)
        /\ KeepsType(SubstreamShutdown(Ctx), FALSE)

\* an MP3 substream that has a unit in progress and a pump initialized, to
\* which a valid AAC packet is delivered and dropped
C21_Witness ==
    /\ sub.substream_details_known
    /\ sub.codec_type = kCodecMPEG1Audio
    /\ sub.status = OK
    /\ pump.decoder
    /\ sub.buffer_in_progress # NULL
    /\ DropsStart(StartOf(PkAac44, WireLen(PkAac44), EnvOK))

\* packets whose length fields do not say what they carry, with a volume
\* that is not the pump's
LoudHdr == [BaseHdr EXCEPT !.volume = 100]

OddLengthPackets ==
    { RawPkt(LoudHdr, U32(12), U32(0), <<>>, Mp3Stereo, U32(5)),
      RawPkt(LoudHdr, U32(16), U32(0), <<>>, Mp3Stereo, U32(5)),
      RawPkt([LoudHdr EXCEPT !.has_aux = TRUE], U32(16), U32(0), <<>>,
             Mp3Stereo, U32(5)),
      RawPkt([LoudHdr EXCEPT !.has_aux = TRUE], U32(21), U32(8), <<>>,
             Mp3Stereo, U32(5)) }

\* The first cut bytes of packet pk are a malformed fragment-start: a bad
\* version, a header type or codec that is not handled, a codec other than
\* the substream's, a header cut short, or length fields that contradict
\* each other or the bytes delivered.
Malformed(pk, cut) ==
    \/ pk.h.version # 1
    \/ pk.h.header_type # kHeaderTypeAudio
    \/ pk.h.codec \notin {kCodecMPEG1Audio, kCodecAACAudio}
    \/ ~CodecFits(pk)
    \/ cut < HdrLen(pk.h)
    \/ Lt32(pk.trtp_len, U32(HdrLen(pk.h)))
    \/ Lt32(Sub32(pk.trtp_len, U32(HdrLen(pk.h))), pk.aux_len)
    \/ Lt32(Sub32(pk.trtp_len, U32(HdrLen(pk.h))), U32(cut - HdrLen(pk.h)))

\* the call that returned c changed nothing of the substream and its pump
\* and queued nothing
NoChange(c) ==
    /\ c.s = sub
    /\ c.p = pump
    /\ Logged(c.calls, "queueForDecode") = {}
    /\ Logged(c.calls, "alloc") = {}

\* C22: a malformed fragment-start delivered to a substream that has no unit
\* in progress changes nothing: the substream keeps its state, its type and
\* codec as they were, nothing is queued, and the pump's volume, transform
\* and queue stay as they were
C22_MalformedChangesNothing ==
    (sub.status = OK /\ sub.buffer_in_progress = NULL) =>
        \A pk \in AllPackets \cup OddLengthPackets :
            \A cut \in 0..WireLen(pk) :
                Malformed(pk, cut) => NoChange(StartOf(pk, cut, EnvOK))

\* a 32-bit sum that wraps: aux lengths close to 2^32
WrapHdr == [BaseHdr EXCEPT !.has_aux = TRUE]

AuxLengths == { U32(0), U32(1), U32(8), <<32768, 0>>, <<65535, 65518>>,
                <<65535, 65519>>, <<65535, 65535>> }

TotalLengths == { U32(17), U32(18), U32(25), <<32768, 0>>, <<65535, 65535>> }

WrapPackets ==
    { RawPkt(WrapHdr, total, aux_len, <<>>, unit, U32(5)) :
        total \in TotalLengths, aux_len \in AuxLengths,
        unit \in {<<>>, <<7>>, Mp3Stereo} }

\* C23: a fragment-start whose aux length plus header length exceeds its
\* total length is rejected with no buffer allocated, whatever the values of
\* the two 32-bit fields
C23_AuxLengthChecked ==
    (sub.status = OK /\ CodecFits(PkStereo)) =>
        \A pk \in WrapPackets :
            Lt32(Sub32(pk.trtp_len, U32(HdrLen(pk.h))), pk.aux_len) =>
                Logged(StartOf(pk, WireLen(pk), EnvOK).calls, "alloc") = {}

\* q is pump with transform trans stored, marked valid and passed to the
\* renderer if there is one
StoresTransform(q, trans) ==
    /\ q.last_ts_transform = trans
    /\ q.last_ts_transform_valid
    /\ IF pump.renderer = NULL THEN q.renderer = NULL
       ELSE q.renderer = [pump.renderer EXCEPT !.transform = trans]
    /\ [q EXCEPT !.last_ts_transform = pump.last_ts_transform,
                 !.last_ts_transform_valid = pump.last_ts_transform_valid,
                 !.renderer = pump.renderer] = pump

\* C24: setRenderTSTransform(t) changes nothing, the renderer included, when
\* a valid stored transform equals t; otherwise it stores t, marks it valid
\* and passes it to the renderer, if there is one, in the same call.  No
\* transform is valid after shutdown, so that the first call after it stores
\* its argument even when that equals the transform stored before.
C24_SetTransform ==
    /\ \A trans \in Transforms :
          IF pump.last_ts_transform_valid /\ pump.last_ts_transform = trans
          THEN setRenderTSTransform(pump, trans) = pump
          ELSE StoresTransform(setRenderTSTransform(pump, trans), trans)
    /\ Logged(calls, "shutdown") # {} =>
          /\ ~pump.last_ts_transform_valid
          /\ StoresTransform(setRenderTSTransform(pump, pump.last_ts_transform),
                             pump.last_ts_transform)

\* setRenderTSTransform has just returned on a pump whose renderer has the
\* transform 1, the second one stored since the pump was constructed
C24_Witness ==
    /\ Logged(calls, "setRenderTSTransform") # {}
    /\ pump.renderer # NULL
    /\ pump.renderer.transform = 1
    /\ pump.last_ts_transform = 1
    /\ pump.last_queued_pts_valid

\* the render step run now on the unit at the head of the queue
RenderNow(renv) ==
    DecodeStep(pump, "output", TRUE, OK, ShortUsecs, renv)

\* the render step that returned r dropped its unit: no renderer, nothing
\* submitted, no fatal failure
DropsOutput(r) ==
    /\ ~r.crash
    /\ r.p.renderer = NULL
    /\ r.p.last_queued_pts_valid = pump.last_queued_pts_valid

\* C25: a renderer is constructed only while a valid transform is stored:
\* CHECK(last_ts_transform_valid_) never fails, the first output after a
\* shutdown and a new init included, and output decoded while no valid
\* transform is stored is dropped without a fatal failure
C25_SinkHasTransform ==
    /\ ~crashed
    /\ pump.renderer # NULL => pump.last_ts_transform_valid
    /\ (pump.wpc = "loop" /\ pump.in_queue # <<>>
          /\ ~pump.last_ts_transform_valid) =>
            \A renv \in RenderEnvs : DropsOutput(RenderNow(renv))

\* C26: the work thread has recorded the error of a failed decode step and
\* left its loop exactly when, of the failed steps since it started or last
\* produced output, there are 60, or 3 that each took longer than
\* kLongDecodeErrorThreshold; steps with output set both counts back, steps
\* without a buffer and format changes leave them alone
C26_TerminalExactly ==
    pump.wpc \in {"loop", "exited"} =>
        (pump.thread_status = ERROR_MALFORMED
            <=> (hist.run_errors >= kMaxErrorsBeforeFatal
                   \/ hist.run_long >= kMaxLongErrorsBeforeFatal))

\* C27: a failed decode step adds one to consecutive_long_errors exactly when
\* it took longer than kLongDecodeErrorThreshold; one that took exactly that
\* long adds to consecutive_errors only
C27_LongIsStrictlyLonger ==
    (pump.wpc = "loop"
       /\ pump.consecutive_errors + 1 < kMaxErrorsBeforeFatal) =>
        \A durationUsecs \in {ShortUsecs, ThresholdUsecs, SlowUsecs} :
            /\ DecodeError(pump, ERROR_MALFORMED, durationUsecs)
                       .consecutive_errors = pump.consecutive_errors + 1
            /\ DecodeError(pump, ERROR_MALFORMED, durationUsecs)
                       .consecutive_long_errors
                 = pump.consecutive_long_errors
                     + (IF durationUsecs > kLongDecodeErrorThreshold
                        THEN 1 ELSE 0)

\* this step ends workThread: the thread was running it and has now returned
WorkThreadReturns ==
    /\ thr.w # "exited"
    /\ thr'.w = "exited"
    /\ ~(thr.w = "start" /\ thr.exitPending)    \* workThread was never called

\* the step is the last one of decoder_->stop(); stopAndCleanupRenderer()
AfterStopAndCleanup ==
    /\ thr.w \in {"td_check", "td_null"}
    /\ thr.after = "exited"

\* C28: the work thread returns from workThread only through
\* decoder_->stop() and stopAndCleanupRenderer(), whether an exit was
\* requested, the error budget was used up or decoder_->start() failed, and
\* so renderer_ is NULL whenever no work thread is running
C28_ExitStopsAndCleansUp ==
    /\ [](thr.w \in {"none", "exited"} => pump.renderer = NULL)
    /\ [][WorkThreadReturns => AfterStopAndCleanup]_vars

\* In queueToRenderer on pump p the step that renv makes fail is reached and
\* fails: the renderer's set or setMediaTimeTransform when there is no
\* renderer, allocateTimedBuffer or queueTimedBuffer once there is one.
RenderFails(p, renv) ==
    \/ renv = "set_fail" /\ p.renderer = NULL
    \/ renv = "transform_fail" /\ p.renderer = NULL
          /\ p.last_ts_transform_valid
    \/ renv \in {"alloc_fail", "queue_fail"}
          /\ (p.renderer # NULL \/ p.last_ts_transform_valid)

\* queueToRenderer, having returned r, dropped the unit and nothing else
DropsUnit(r) ==
    /\ ~r.crash
    /\ r.p.last_queued_pts = pump.last_queued_pts
    /\ r.p.last_queued_pts_valid = pump.last_queued_pts_valid
    /\ r.p.consecutive_errors = pump.consecutive_errors
    /\ r.p.consecutive_long_errors = pump.consecutive_long_errors
    /\ r.p.thread_status = pump.thread_status
    /\ r.p.wpc = "loop"
    /\ r.p.in_queue = pump.in_queue

\* queueToRenderer, having returned r, submitted unit
SubmitsUnit(r, unit) ==
    /\ ~r.crash
    /\ r.p.renderer # NULL
    /\ r.p.last_queued_pts_valid
    /\ r.p.last_queued_pts = unit.ts

\* C29: when the renderer cannot be constructed, or the timed buffer cannot
\* be allocated or queued, queueToRenderer drops that unit only: the last
\* queued timestamp and its flag, the error counters and thread_status_ stay
\* as they were and the work thread goes on, the failure not counted as a
\* decode error; the timestamp is recorded only for a unit the renderer
\* accepted
C29_RenderFailureDrops ==
    (pump.wpc = "loop" /\ pump.in_queue # <<>>) =>
        \A renv \in RenderEnvs :
            /\ RenderFails(pump, renv) =>
                  DropsUnit(queueToRenderer(pump, Head(pump.in_queue), renv))
            /\ (renv = "ok" /\ pump.last_ts_transform_valid) =>
                  SubmitsUnit(queueToRenderer(pump, Head(pump.in_queue), renv),
                              Head(pump.in_queue))
            /\ RenderFails(pump, renv) =>
                  /\ ~DecodeStep(pump, "output", TRUE, OK, ShortUsecs, renv).crash
                  /\ DecodeStep(pump, "output", TRUE, OK, ShortUsecs, renv)
                         .p.wpc = "loop"
                  /\ DecodeStep(pump, "output", TRUE, OK, ShortUsecs, renv)
                         .p.thread_status = pump.thread_status
                  /\ DecodeStep(pump, "output", TRUE, OK, ShortUsecs, renv)
                         .p.consecutive_errors = 0
                  /\ DecodeStep(pump, "output", TRUE, OK, ShortUsecs, renv)
                         .p.consecutive_long_errors = 0

\* a renderer has been constructed and the unit decoded for it was not
\* accepted: no timestamp is recorded, the work thread is in its loop, and
\* another unit waits
C29_Witness ==
    /\ pump.renderer # NULL
    /\ ~pump.last_queued_pts_valid
    /\ ~hist.rendered
    /\ pump.wpc = "loop"
    /\ pump.thread_status = OK
    /\ pump.in_queue # <<>>
    /\ DropsUnit(queueToRenderer(pump, Head(pump.in_queue), "queue_fail"))

\* packet pk, delivered whole, is allocated a buffer and fills it: its header
\* is one the substream handles and its length fields say what it carries
FillsBuffer(pk) ==
    /\ pk.h.version = 1
    /\ pk.h.header_type = kHeaderTypeAudio
    /\ pk.h.codec \in {kCodecMPEG1Audio, kCodecAACAudio}
    /\ pk.trtp_len = U32(HdrLen(pk.h) + Len(pk.aux) + Len(pk.payload))
    /\ pk.aux_len = U32(Len(pk.aux))
    /\ pk.h.has_aux \/ pk.aux = <<>>
    /\ pk.payload # <<>>
    /\ CodecFits(pk)
    /\ pk.h.rap \/ ~sub.waiting_for_rap

\* the units the call that returned c released, and those the pump took
ReleasedIn(c) == Logged(c.calls, "release")

HandedIn(c) == {k \in Logged(c.calls, "queueForDecode") : c.calls[k].res = OK}

\* The call that returned c completed one unit: the unit was released once
\* or taken by the pump once, not both, and the substream has no unit in
\* progress, no bytes filled and no aux data
CompletedOnce(c) ==
    /\ ~c.crash
    /\ Logged(c.calls, "completed") # {}
    /\ Cardinality(ReleasedIn(c)) + Cardinality(HandedIn(c)) = 1
    /\ \A k \in HandedIn(c) :
          /\ c.p.in_queue # <<>>
          /\ c.p.in_queue[Len(c.p.in_queue)] = c.calls[k].buf
    /\ c.s.buffer_in_progress = NULL
    /\ c.s.buffer_filled = 0
    /\ c.s.expected_buffer_size = U32(0)
    /\ c.s.aux_data_in_progress = <<>>

\* C30: on every path through processCompletedBuffer (the metadata cannot be
\* derived, the pump cannot be initialized, the unit is queued, the unit is
\* refused) the buffer in progress is released once or handed to the pump
\* once, never both, and the substream is left with no buffer in progress,
\* no bytes filled and no aux data
C30_CompletionReleasesOnce ==
    sub.status = OK =>
        /\ sub.buffer_in_progress = NULL =>
              \A pk \in AllPackets, env \in InitEnvs :
                  FillsBuffer(pk) =>
                      CompletedOnce(StartOf(pk, WireLen(pk), env))
        /\ tx.live =>
              \A env \in InitEnvs : CompletedOnce(ContOf(tx.rest, env))

\* a completed unit has just been refused by a pump with a terminal status
\* and released, once
C30_Witness ==
    /\ sub.status # OK
    /\ Logged(calls, "completed") # {}
    /\ \E k \in Logged(calls, "queueForDecode") : calls[k].res # OK
    /\ Cardinality(Logged(calls, "release")) = 1
    /\ sub.buffer_in_progress = NULL

-----------------------------------------------------------------------------
(* Properties of the units: what they are made of, their timestamp, the    *)
(* volume they are queued with, and the wake-up of the work thread.        *)

\* every byte written to buffer buf is the byte of packet pk's access unit at
\* that place
BytesOf(buf, pk) ==
    /\ Len(buf.data) <= Len(pk.payload)
    /\ \A i \in 1..Len(buf.data) :
          buf.data[i] = Unwritten \/ buf.data[i] = pk.payload[i]

\* The call that returned c, a fragment-start of packet pk delivered while
\* buffer old was in progress, released old before anything else, and what
\* it queued or left in progress is made of pk alone.
StartsAfresh(c, old, pk) ==
    /\ c.calls # <<>>
    /\ c.calls[1] = [op |-> "release", buf |-> old]
    /\ \A k \in Logged(c.calls, "alloc") : k > 1
    /\ \A k \in Logged(c.calls, "queueForDecode") :
          BytesOf(c.calls[k].buf, pk)
    /\ c.s.buffer_in_progress # NULL =>
          /\ BytesOf(c.s.buffer_in_progress, pk)
          /\ Cardinality({k \in Logged(c.calls, "alloc") : c.calls[k].ok}) = 1
    /\ Logged(c.calls, "alloc") = {} => c.s.buffer_in_progress = NULL

\* C31: a fragment-start that arrives while a buffer is in progress releases
\* that buffer before it parses the new header, also when the new fragment
\* is rejected, so that a queued unit, and the one unit in progress, hold
\* bytes of one fragment-start only
C31_StartDiscardsPrior ==
    (sub.status = OK /\ sub.buffer_in_progress # NULL) =>
        \A pk \in AllPackets : \A cut \in 0..WireLen(pk) :
            \A env \in StartEnvs(pk, cut) :
                StartsAfresh(StartOf(pk, cut, env), sub.buffer_in_progress, pk)

\* a unit of one MP3 packet is in progress with bytes written, and a packet
\* with another access unit starts and is queued whole
C31_Witness ==
    /\ tx.live
    /\ sub.buffer_in_progress # NULL
    /\ sub.buffer_filled > 0
    /\ tx.pk = PkStereo
    /\ \E k \in Logged(StartOf(PkMono, WireLen(PkMono), EnvOK).calls,
                       "queueForDecode") :
          StartOf(PkMono, WireLen(PkMono), EnvOK).calls[k].buf.data = Mp3Mono

\* the unit of packet pk cannot give the substream its metadata: AAC with
\* fewer than 8 bytes of aux data, MP3 of fewer than 4 bytes or with four
\* leading bytes that are no frame header
NoMetaUnit(pk) ==
    \/ pk.h.codec = kCodecAACAudio /\ Len(pk.aux) < 8
    \/ pk.h.codec = kCodecMPEG1Audio /\ Len(pk.payload) < 4
    \/ pk.h.codec = kCodecMPEG1Audio /\ Len(pk.payload) >= 4
          /\ ~GetMPEGAudioFrameSize(pk.payload).ok

\* The call that returned c completed a unit and dropped it: nothing was
\* offered to the pump, the pump is p0, the metadata are the substream's,
\* the unit was released and no status recorded
DropsCompleted(c, p0) ==
    /\ ~c.crash
    /\ Logged(c.calls, "completed") # {}
    /\ Logged(c.calls, "queueForDecode") = {}
    /\ Logged(c.calls, "init") = {}
    /\ Logged(c.calls, "shutdown") = {}
    /\ Cardinality(Logged(c.calls, "release")) = 1
    /\ c.p = p0
    /\ c.s.substream_meta = sub.substream_meta
    /\ c.s.status = OK
    /\ c.s.buffer_in_progress = NULL
    /\ c.s.buffer_filled = 0
    /\ c.s.aux_data_in_progress = <<>>

\* C32: a completed AAC unit with fewer than 8 bytes of aux data (none at
\* all included), and a completed MP3 unit of fewer than 4 bytes or whose
\* first 4 bytes are no frame header, is dropped: it is not queued, the
\* stored metadata and the pump stay as they were before the completion
\* (the pump with the volume the fragment-start has passed to it), no unit is
\* left in progress and no status is recorded
C32_NoMetaUnitDropped ==
    sub.status = OK =>
        /\ sub.buffer_in_progress = NULL =>
              \A pk \in AllPackets, env \in InitEnvs :
                  (FillsBuffer(pk) /\ NoMetaUnit(pk)) =>
                      DropsCompleted(StartOf(pk, WireLen(pk), env),
                                     setRenderVolume(pump, pk.h.volume))
        /\ (tx.live /\ NoMetaUnit(tx.pk)) =>
              \A env \in InitEnvs :
                  DropsCompleted(ContOf(tx.rest, env), pump)

\* an MP3 substream with metadata stored and a pump initialized is
\* reassembling a unit whose four bytes are no frame header
C32_Witness ==
    /\ tx.live
    /\ tx.pk = PkGarbage
    /\ sub.substream_meta # NULL
    /\ pump.decoder
    /\ sub.status = OK
    /\ DropsCompleted(ContOf(tx.rest, EnvOK), pump)

\* the halves of the timestamps the sender uses
TsHighs == { U32(0), U32(1), <<32767, 65535>>, <<65535, 65535>> }

TsLows == { U32(0), U32(5), <<32767, 65535>>, <<32768, 0>>, <<65535, 65535>> }

\* well-formed MP3 packets with a timestamp, and one without
TsPackets ==
    { [Pkt([BaseHdr EXCEPT !.ts_upper = hi], <<>>, Mp3Stereo)
          EXCEPT !.ts_lower = lo] : hi \in TsHighs, lo \in TsLows }
      \cup
    { [Pkt([BaseHdr EXCEPT !.ts_valid = FALSE], <<>>, Mp3Stereo)
          EXCEPT !.ts_lower = lo] : lo \in TsLows }

\* the call that returned c queued the unit of packet pk with the timestamp
\* ts_upper * 2^32 + ts_lower, or with none if pk has none
QueuedWithTs(c, pk) ==
    /\ Logged(c.calls, "queueForDecode") # {}
    /\ \A k \in Logged(c.calls, "queueForDecode") :
          /\ c.calls[k].buf.has_ts = pk.h.ts_valid
          /\ pk.h.ts_valid =>
                c.calls[k].buf.ts = [hi |-> pk.h.ts_upper, lo |-> pk.ts_lower]

\* C33: the timestamp of a unit whose header has the timestamp flag is
\* ts_upper * 2^32 + ts_lower, ts_lower taken as an unsigned 32-bit value
\* whether its top bit is set or not; without the flag the unit has no
\* timestamp
C33_TimestampComposed ==
    (sub.status = OK /\ CodecFits(PkStereo)) =>
        \A pk \in TsPackets :
            QueuedWithTs(StartOf(pk, WireLen(pk), EnvOK), pk)

\* well-formed MP3 packets with volume byte 100, stereo and mono
LoudPackets == { Pkt(LoudHdr, <<>>, Mp3Stereo), Pkt(LoudHdr, <<>>, Mp3Mono) }

\* packet pk delivered now, whole (cut at its end) or as a fragment-start
\* of cut bytes and one continuation with the rest
Delivered(pk, cut, env) ==
    IF cut = WireLen(pk)
    THEN StartOf(pk, cut, env)
    ELSE processPayloadCont(StartOf(pk, cut, EnvOK), Drop(Wire(pk), cut), env)

\* whenever the calls that returned c have enqueued a unit of packet pk, the
\* pump has the volume of pk's header (nothing touches the pump between
\* the enqueue and the return)
VolumeAtEnqueue(c, pk) ==
    \A k \in Logged(c.calls, "queueForDecode") :
        c.calls[k].res = OK => c.p.last_volume = pk.h.volume

\* C34: when a completed unit is enqueued, the volume the pump has stored is
\* the volume byte of the unit's fragment-start header, also when the
\* completion has reset the pump for a change of format
C34_VolumeAtEnqueue ==
    (sub.status = OK /\ sub.buffer_in_progress = NULL) =>
        \A pk \in LoudPackets : \A cut \in BodyCuts(pk) : \A env \in InitEnvs :
            VolumeAtEnqueue(Delivered(pk, cut, env), pk)

\* fragment-starts with corrupt length fields
CorruptPackets ==
    OddLengthPackets
      \cup { RawPkt(WrapHdr, total, aux_len, <<>>, Mp3Stereo, U32(5)) :
               total \in {U32(17), U32(25), <<65535, 65535>>},
               aux_len \in AuxLengths }

\* bytes of continuations that belong to no packet
StrayBytes == { <<7>>, Mp3Stereo, Zeros(9) }

\* the bounds of the reassembly state s: the aux data gathered is within the
\* declared aux length, the bytes filled and written within the declared
\* size of the unit, which is the size of the buffer; a buffer is in
\* progress only while it is not full, and without one nothing is gathered
Bounded(s) ==
    /\ ~Lt32(s.aux_data_expected_size, U32(Len(s.aux_data_in_progress)))
    /\ ~Lt32(s.expected_buffer_size, U32(s.buffer_filled))
    /\ s.buffer_in_progress # NULL =>
          /\ Lt32(U32(s.buffer_filled), s.expected_buffer_size)
          /\ s.buffer_in_progress.size = s.expected_buffer_size
          /\ Len(s.buffer_in_progress.data) = s.buffer_filled
    /\ s.buffer_in_progress = NULL =>
          /\ s.buffer_filled = 0
          /\ s.aux_data_in_progress = <<>>

\* bytes gathered for the unit in progress of s
Gathered(s) == Len(s.aux_data_in_progress) + s.buffer_filled

\* The call that returned c from substream s0 with n bytes to copy failed no
\* assertion and left the reassembly state bounded; a unit it completed
\* fills its buffer exactly, and a unit it left in progress has gathered the
\* n bytes and no others
CopiesWithin(c, s0, n) ==
    /\ ~c.crash
    /\ Bounded(c.s)
    /\ \A k \in Logged(c.calls, "completed") :
          U32(Len(c.calls[k].buf.data)) = c.calls[k].buf.size
    /\ c.s.buffer_in_progress # NULL => Gathered(c.s) = Gathered(s0) + n

\* a fragment-start of cut bytes of packet pk, then a continuation of bytes
StartThenCont(c, pk, cut, bytes) ==
    /\ CopiesWithin(c, [sub EXCEPT !.buffer_filled = 0,
                                   !.aux_data_in_progress = <<>>],
                    cut - HdrLen(pk.h))
    /\ CopiesWithin(processPayloadCont(c, bytes, EnvOK), c.s, Len(bytes))

\* C35: whatever fragments arrive, corrupt ones included, the aux data
\* gathered never exceeds the declared aux length, the bytes filled never
\* exceed the declared size of the unit, a buffer is in progress only while
\* filled is below that size, and without a buffer in progress filled is 0
\* and no aux data is gathered; the assertions of processPayloadStart and
\* processPayloadCont do not fail, and no copy writes beyond the declared
\* sizes or reads beyond the fragment
C35_ReassemblyBounded ==
    /\ ~crashed
    /\ Bounded(sub)
    /\ \A bytes \in StrayBytes :
          CopiesWithin(ContOf(bytes, EnvOK), sub, Len(bytes))
    /\ \A pk \in CorruptPackets : \A cut \in BodyCuts(pk) \cup {0, 5} :
          \A bytes \in StrayBytes :
              StartThenCont(StartOf(pk, cut, EnvOK), pk, cut, bytes)

\* a unit with aux data is in progress, its aux data gathered in part and
\* none of its payload, and a continuation with more bytes than are left of
\* it is dropped within the bounds
C35_Witness ==
    /\ sub.buffer_in_progress # NULL
    /\ sub.aux_data_in_progress # <<>>
    /\ Lt32(U32(Len(sub.aux_data_in_progress)), sub.aux_data_expected_size)
    /\ sub.buffer_filled = 0
    /\ Logged(ContOf(Zeros(9) \o Zeros(9), EnvOK).calls, "extra data") # {}
    /\ CopiesWithin(ContOf(Zeros(9) \o Zeros(9), EnvOK), sub, 18)

-----------------------------------------------------------------------------
(* SpecThreadsFair: SpecThreads under a fair scheduler.  The work thread   *)
(* takes a step whenever it stays able to, and so does a caller that is    *)
(* inside queueForDecode; the caller is free never to call again.          *)

\* the steps of a caller inside queueForDecode
CallerInQueue == T_queue_push \/ T_queue_signal

SpecThreadsFair ==
    SpecThreads /\ WF_vars(WorkerNext) /\ WF_vars(CallerInQueue)

\* unit id is in in_queue_
Enqueued(id) == \E i \in 1..Len(pump.in_queue) : pump.in_queue[i] = UnitNo(id)

\* read() has handed unit id to the decode engine
Pulled(id) ==
    \E i \in 1..Len(thr.taken) :
        thr.taken[i] = [unit |-> UnitNo(id), how |-> "pull"]

\* the work thread is in read() between the test of its loop and the end of
\* its wait
BlockedInRead == thr.w \in {"read_block", "read_wait"}

\* C36: a unit that is in the queue while the work thread is in read(),
\* waiting or between its test of the queue and its wait, with no exit
\* requested, is handed out by read() in the end, unless a shutdown is
\* requested first: no signal of queueForDecode is lost, in any interleaving
\* of a fair scheduler
C36_EnqueueWakes ==
    \A id \in 1..MaxUnits :
        (Enqueued(id) /\ BlockedInRead /\ ~thr.exitPending)
            ~> (Pulled(id) \/ thr.exitPending)

\* the work thread waits in read() with exit not requested, and the caller
\* has pushed a unit and not yet signalled
C36_Witness ==
    /\ thr.w = "read_wait"
    /\ thr.cpc = "q_signal"
    /\ ~thr.exitPending
    /\ Enqueued(thr.arg)
    /\ ~Pulled(thr.arg)

====
